---- MODULE Spec2Model ----
(***************************************************************************)
(* A model of the token Store of rrm80/gautham: the persistence record of  *)
(* a token in the Redis backend, the backend steps of Issue, Access and    *)
(* Revoke, and the fan-out of RevokeN and List.                            *)
(***************************************************************************)
EXTENDS Integers, Sequences, FiniteSets, Bags, TLC

(***************************************************************************)
(* Bounds of the model.                                                    *)
(***************************************************************************)
NumProcs == 2       \* concurrent callers of Issue / Access / Revoke
MaxId == 1          \* tokens Issue may create in one behaviour
MaxTime == 12       \* seconds the clock may advance in one behaviour
MaxTs == 2          \* length of the slice handed to RevokeN
MaxHits == 3        \* records of the listed subject in the backend

(***************************************************************************)
(* Constants of the program.                                               *)
(***************************************************************************)
Second == 1000          \* time.Second, in the unit of a time.Duration of the model
DefaultExp == 72 * 3600 * Second    \* 72 * time.Hour
ValidateSkew == 5       \* validate: t.Expires < now + 5
ExpireGrace == 5        \* registerToken: ExpireAt(t.Expires + 5)
ListErrCap == 16        \* List: make(chan error, 16)

(***************************************************************************)
(* Values.  A nil pointer, the zero UUID, the NUL separator.  Strings that *)
(* the code joins and splits are sequences of characters.                  *)
(***************************************************************************)
Nil == [nil |-> TRUE]
ZeroUUID == 0
NUL == "\\x00"
EmptyMap == [x \in {} |-> 0]

RECURSIVE Join(_, _)
\* strings.Join(ss, sep)
Join(ss, sep) ==
  IF Len(ss) = 0 THEN <<>>
  ELSE IF Len(ss) = 1 THEN ss[1]
  ELSE ss[1] \o <<sep>> \o Join(Tail(ss), sep)

RECURSIVE Split(_, _)
\* strings.Split(s, sep): always at least one element
Split(s, sep) ==
  IF \A i \in 1..Len(s) : s[i] # sep THEN <<s>>
  ELSE LET i == CHOOSE j \in 1..Len(s) :
                  s[j] = sep /\ \A k \in 1..(j - 1) : s[k] # sep
       IN <<SubSeq(s, 1, i - 1)>> \o Split(SubSeq(s, i + 1, Len(s)), sep)

\* copy(dst[:n], src): the first n elements of src, the rest left empty
CopyN(src, n) == [i \in 1..n |-> IF i <= Len(src) THEN src[i] ELSE <<>>]

(***************************************************************************)
(* Footprint.                                                              *)
(***************************************************************************)
\* net.ParseIP: the 16-byte form of an address literal, nil otherwise
ParseIP(addr) ==
  IF addr = "1.2.3.4" THEN <<0, 0, 0, 0, 0, 0, 0, 0, 0, 0, 255, 255, 1, 2, 3, 4>>
  ELSE IF addr = "::1" THEN <<0, 0, 0, 0, 0, 0, 0, 0, 0, 0, 0, 0, 0, 0, 0, 1>>
  ELSE <<>>

\* uaParser.Parse: the UA-parsing collaborator, on the user agents of the model
UAParse(uags) ==
  [UserAgent |-> [Family |-> <<"F", "x">>, Major |-> <<"5", "8">>,
                  Minor |-> <<"0">>, Patch |-> <<>>],
   Os |-> [Family |-> <<"L", "x">>, Major |-> <<>>, Minor |-> <<>>,
           Patch |-> <<>>, PatchMinor |-> <<>>],
   Device |-> [Brand |-> <<>>, Family |-> <<"O">>, Model |-> <<>>]]

\* makeFootprint that leaves out an address it cannot parse
makeFootprintLenient(ts, addr, refr, orig, uags, clock) ==
  LET stamp == IF ts = 0 THEN clock ELSE ts
      c == UAParse(uags)
  IN [Timestamp |-> stamp, RemoteAddr |-> ParseIP(addr),
      Referer |-> refr, Origin |-> orig,
      UserAgent |-> IF uags # "" THEN c.UserAgent ELSE Nil,
      Os |-> IF uags # "" THEN c.Os ELSE Nil,
      Device |-> IF uags # "" THEN c.Device ELSE Nil]

makeFootprint(ts, addr, refr, orig, uags, clock) ==
  LET stamp == IF ts = 0 THEN clock ELSE ts
      c == UAParse(uags)
  IN IF addr # "" /\ ParseIP(addr) = <<>> THEN Nil
     ELSE [Timestamp |-> stamp,
           RemoteAddr |-> IF addr # "" THEN ParseIP(addr) ELSE <<>>,
           Referer |-> refr, Origin |-> orig,
           UserAgent |-> IF uags # "" THEN c.UserAgent ELSE Nil,
           Os |-> IF uags # "" THEN c.Os ELSE Nil,
           Device |-> IF uags # "" THEN c.Device ELSE Nil]

fpToInternal(fp) ==
  [Timestamp |-> fp.Timestamp,
   RemoteAddr |-> IF Len(fp.RemoteAddr) # 0 THEN fp.RemoteAddr ELSE <<>>,
   Referer |-> fp.Referer, Origin |-> fp.Origin,
   UserAgent |-> IF fp.UserAgent # Nil
                 THEN Join(<<fp.UserAgent.Family, fp.UserAgent.Major,
                             fp.UserAgent.Minor, fp.UserAgent.Patch>>, NUL)
                 ELSE <<>>,
   Os |-> IF fp.Os # Nil
          THEN Join(<<fp.Os.Family, fp.Os.Major, fp.Os.Minor, fp.Os.Patch,
                      fp.Os.PatchMinor>>, NUL)
          ELSE <<>>,
   Device |-> IF fp.Device # Nil
              THEN Join(<<fp.Device.Brand, fp.Device.Family, fp.Device.Model>>, NUL)
              ELSE <<>>]

fpFromInternal(f) ==
  LET ua == CopyN(Split(f.UserAgent, NUL), 4)
      os == CopyN(Split(f.Os, NUL), 5)
      dv == CopyN(Split(f.Device, NUL), 3)
  IN [Timestamp |-> f.Timestamp,
      RemoteAddr |-> IF Len(f.RemoteAddr) # 0 THEN f.RemoteAddr ELSE <<>>,
      Referer |-> f.Referer, Origin |-> f.Origin,
      UserAgent |-> IF Len(f.UserAgent) # 0
                    THEN [Family |-> ua[1], Major |-> ua[2], Minor |-> ua[3],
                          Patch |-> ua[4]]
                    ELSE Nil,
      Os |-> IF Len(f.Os) # 0
             THEN [Family |-> os[1], Major |-> os[2], Minor |-> os[3],
                   Patch |-> os[4], PatchMinor |-> os[5]]
             ELSE Nil,
      Device |-> IF Len(f.Device) # 0
                 THEN [Brand |-> dv[1], Family |-> dv[2], Model |-> dv[3]]
                 ELSE Nil]

(***************************************************************************)
(* Msgpack.  An encoded value is the nil byte 0xC0, or a map that holds    *)
(* the tags the struct does not omit; a field tagged omitempty is left out *)
(* when it holds its zero value and decodes to the zero value.             *)
(***************************************************************************)
MpNil == [mp |-> "c0"]
MpEmpty == [mp |-> "empty"]      \* the empty string, no msgpack value
MpGarbage == [mp |-> "garbage"]

OmitEmpty(tag, v, zero) == IF v = zero THEN EmptyMap ELSE tag :> v
Tagged(m, tag, zero) == IF tag \in DOMAIN m THEN m[tag] ELSE zero

\* the footprint struct with its msgpack tags
mpEncFootprintStruct(f) ==
  ("mp" :> "map") @@ OmitEmpty("tsp", f.Timestamp, 0)
    @@ OmitEmpty("adr", f.RemoteAddr, <<>>) @@ OmitEmpty("ref", f.Referer, "")
    @@ OmitEmpty("org", f.Origin, "") @@ OmitEmpty("uag", f.UserAgent, <<>>)
    @@ OmitEmpty("uos", f.Os, <<>>) @@ OmitEmpty("udv", f.Device, <<>>)

mpDecFootprintStruct(m) ==
  [Timestamp |-> Tagged(m, "tsp", 0), RemoteAddr |-> Tagged(m, "adr", <<>>),
   Referer |-> Tagged(m, "ref", ""), Origin |-> Tagged(m, "org", ""),
   UserAgent |-> Tagged(m, "uag", <<>>), Os |-> Tagged(m, "uos", <<>>),
   Device |-> Tagged(m, "udv", <<>>)]

\* (*Footprint).EncodeMsgpack behind a pointer: nil encodes as 0xC0
EncodeFootprint(fp) ==
  IF fp = Nil THEN MpNil ELSE mpEncFootprintStruct(fpToInternal(fp))

\* (*Footprint).DecodeMsgpack behind a pointer: [err, v]
DecodeFootprint(b) ==
  IF b = MpNil THEN [err |-> FALSE, v |-> Nil]
  ELSE IF b.mp = "map"
       THEN [err |-> FALSE, v |-> fpFromInternal(mpDecFootprintStruct(b))]
       ELSE [err |-> TRUE, v |-> Nil]

(***************************************************************************)
(* Token.                                                                  *)
(***************************************************************************)
\* New(sub, iss, aud, exp): id is the fresh UUID, clock is time.Now().Unix()
NewAlways(sub, iss, aud, exp, id, clock) ==
  [Id |-> id, Subject |-> sub, Issuer |-> iss, Audience |-> aud,
   Issued |-> clock, NotBefore |-> 0, Expires |-> clock + (exp \div Second),
   fpi |-> Nil, fpc |-> Nil]
New(sub, iss, aud, exp, id, clock) ==
  [Id |-> id, Subject |-> sub, Issuer |-> iss, Audience |-> aud,
   Issued |-> clock, NotBefore |-> 0,
   Expires |-> IF exp # 0 THEN clock + (exp \div Second) ELSE 0,
   fpi |-> Nil, fpc |-> Nil]

\* the bytes of a UUID: one element stands for the 16 bytes
UUIDLen == 1
UUIDBytes(u) == <<u>>

tkToInternal(t) ==
  [Id |-> IF t.Id # ZeroUUID THEN UUIDBytes(t.Id) ELSE <<>>,
   Subject |-> IF t.Subject # ZeroUUID THEN UUIDBytes(t.Subject) ELSE <<>>,
   Issuer |-> t.Issuer, Audience |-> Join(t.Audience, NUL),
   Issued |-> t.Issued, NotBefore |-> t.NotBefore, Expires |-> t.Expires]

tkFromInternal(i) ==
  [Id |-> IF Len(i.Id) = UUIDLen THEN i.Id[1] ELSE ZeroUUID,
   Subject |-> IF Len(i.Subject) = UUIDLen THEN i.Subject[1] ELSE ZeroUUID,
   Issuer |-> i.Issuer,
   Audience |-> IF Len(i.Audience) # 0 THEN Split(i.Audience, NUL) ELSE <<>>,
   Issued |-> i.Issued, NotBefore |-> i.NotBefore, Expires |-> i.Expires,
   fpi |-> Nil, fpc |-> Nil]

\* the token struct with its msgpack tags
mpEncTokenStruct(i) ==
  ("mp" :> "map") @@ ("tid" :> i.Id) @@ ("sub" :> i.Subject)
    @@ OmitEmpty("iss", i.Issuer, "") @@ OmitEmpty("aud", i.Audience, <<>>)
    @@ ("iat" :> i.Issued) @@ OmitEmpty("nbf", i.NotBefore, 0)
    @@ OmitEmpty("exp", i.Expires, 0)

mpDecTokenStruct(m) ==
  [Id |-> Tagged(m, "tid", <<>>), Subject |-> Tagged(m, "sub", <<>>),
   Issuer |-> Tagged(m, "iss", ""), Audience |-> Tagged(m, "aud", <<>>),
   Issued |-> Tagged(m, "iat", 0), NotBefore |-> Tagged(m, "nbf", 0),
   Expires |-> Tagged(m, "exp", 0)]

\* (*Token).EncodeMsgpack behind a pointer
EncodeToken(t) ==
  IF t = Nil THEN MpNil ELSE mpEncTokenStruct(tkToInternal(t))

\* (*Token).DecodeMsgpack behind a pointer: [err, v]
DecodeToken(b) ==
  IF b = MpNil THEN [err |-> FALSE, v |-> Nil]
  ELSE IF b.mp = "map"
       THEN [err |-> FALSE, v |-> tkFromInternal(mpDecTokenStruct(b))]
       ELSE [err |-> TRUE, v |-> Nil]

(***************************************************************************)
(* Errors.  src names the call that built the error value (0: one of the   *)
(* package-level values); io marks a failed backend call.                  *)
(***************************************************************************)
ErrUnregistered == [kind |-> "Unregistered", src |-> 0, io |-> FALSE]
ErrNoBackend == [kind |-> "NoBackend", src |-> 0, io |-> FALSE]
ErrNoSerializer == [kind |-> "NoSerializer", src |-> 0, io |-> FALSE]
BackendIOError(x) == [kind |-> "BackendError", src |-> x, io |-> TRUE]
BackendMapError(x) == [kind |-> "BackendError", src |-> x, io |-> FALSE]
CodecError(x) == [kind |-> "CodecError", src |-> x, io |-> FALSE]
NilTokenError(x) == [kind |-> "StoreError", src |-> x, io |-> FALSE]

validateNoSkew(t, nbfCheck, clock) ==
  IF t.Expires # 0 /\ t.Expires < clock
  THEN [kind |-> "ValidationError", errstrs |-> <<"expired">>, exp |-> TRUE,
        nbf |-> FALSE]
  ELSE Nil
validateNbfAlways(t, nbfCheck, clock) ==
  IF t.NotBefore # 0 /\ t.NotBefore > clock - ValidateSkew
  THEN [kind |-> "ValidationError", errstrs |-> <<"not-before">>, exp |-> FALSE,
        nbf |-> TRUE]
  ELSE Nil
validateOnAccess(t, nbfCheck, clock) ==
  IF nbfCheck /\ t.Expires # 0 /\ t.Expires < clock + ValidateSkew
  THEN [kind |-> "ValidationError", errstrs |-> <<"expired">>, exp |-> TRUE,
        nbf |-> FALSE]
  ELSE Nil
\* validate that returns at the first rule that fails
validateFirstFailure(t, nbfCheck, clock) ==
  LET exp == t.Expires # 0 /\ t.Expires < clock + ValidateSkew
      nbf == nbfCheck /\ t.NotBefore # 0 /\ t.NotBefore > clock - ValidateSkew
      ve(str, e, n) ==
        [kind |-> "ValidationError", errstrs |-> <<str>>, exp |-> e, nbf |-> n]
  IN IF t.Id = ZeroUUID THEN ve("zero-id", FALSE, FALSE)
     ELSE IF t.Subject = ZeroUUID THEN ve("zero-subject", FALSE, FALSE)
     ELSE IF t.Issued = 0 THEN ve("zero-issued", FALSE, FALSE)
     ELSE IF t.Issued > clock THEN ve("future-issued", FALSE, FALSE)
     ELSE IF exp THEN ve("expired", TRUE, FALSE)
     ELSE IF nbf THEN ve("not-before", FALSE, TRUE)
     ELSE Nil
\* (*Token).validate: Nil, or the ValidationError
validate(t, nbfCheck, clock) ==
  LET e1 == IF t.Id = ZeroUUID THEN <<"zero-id">> ELSE <<>>
      e2 == IF t.Subject = ZeroUUID THEN <<"zero-subject">> ELSE <<>>
      e3 == IF t.Issued = 0 THEN <<"zero-issued">>
            ELSE IF t.Issued > clock THEN <<"future-issued">> ELSE <<>>
      exp == t.Expires # 0 /\ t.Expires < clock + ValidateSkew
      e4 == IF exp THEN <<"expired">> ELSE <<>>
      nbf == nbfCheck /\ t.NotBefore # 0 /\ t.NotBefore > clock - ValidateSkew
      e5 == IF nbf THEN <<"not-before">> ELSE <<>>
      errstrs == e1 \o e2 \o e3 \o e4 \o e5
  IN IF Len(errstrs) # 0 \/ exp \/ nbf
     THEN [kind |-> "ValidationError", errstrs |-> errstrs, exp |-> exp, nbf |-> nbf]
     ELSE Nil

(***************************************************************************)
(* The Store and its backend.                                              *)
(***************************************************************************)
VARIABLES
  now,      \* the clock, in seconds since the epoch
  st,       \* the Store: redis and serlr attached?, Namespace, Issuer, Audience, DefaultExp
  flaky,    \* may a backend call fail?
  db,       \* the backend: storage key -> [h: the hash, exat: expiry time or 0]
  th,       \* the callers and the spawned tasks: id -> position and locals
  issued,   \* the tokens Issue has returned a string for
  nextId,   \* the UUIDs handed out so far
  gh,       \* history: what was registered, deleted, revoked
  rn,       \* the RevokeN call
  ls        \* the List call

vars == <<now, st, flaky, db, th, issued, nextId, gh, rn, ls>>

StartTime == 100
Subjects == {1, 2}
IssueSubjects == {1}
TickSteps == {ExpireGrace}
ExpDurations == {0, -1, 5 * Second}
\* remoteAddr, referer, origin, userAgent
FpInputs == {<<"", "", "", "">>, <<"1.2.3.4", "r", "o", "ua">>, <<"bad", "", "o", "">>}

mapKeys == <<"_", "I", "C">>

Lit(s) == [lit |-> s]
B64(u) == [b64 |-> u]

\* the namespace and its colon written whether or not there is a namespace
makeStorageKeyPrefixed(store, t, p) ==
  IF t = Nil THEN <<>>
  ELSE <<Lit(store.Namespace), Lit(":"), B64(t.Subject), Lit(":")>>
       \o <<IF p THEN Lit("*") ELSE B64(t.Id)>>

makeStorageKey(store, t, p) ==
  IF t = Nil THEN <<>>
  ELSE (IF store.Namespace # "" THEN <<Lit(store.Namespace), Lit(":")>> ELSE <<>>)
       \o <<B64(t.Subject), Lit(":")>>
       \o <<IF p THEN Lit("*") ELSE B64(t.Id)>>

\* encStorageData: <<tk, fpi, fpc>>
encStorageDataSwapped(t) ==
  <<EncodeToken(t), EncodeFootprint(t.fpc), EncodeFootprint(t.fpi)>>
\* encStorageData: the three blobs of the record
encStorageData(t) ==
  IF t = Nil THEN <<MpNil, MpNil, MpNil>>
  ELSE <<EncodeToken(t), EncodeFootprint(t.fpi), EncodeFootprint(t.fpc)>>

\* st.serlr.Serialize / Deserialize as the Store sees them: the string carries
\* the encoded token, without the footprints
stSerialize(t) == [hdr |-> "auth.", payload |-> EncodeToken(t)]
stDeserialize(s) == DecodeToken(s.payload)

\* Redis commands on the key space d
Exists(d, k) == k \in DOMAIN d
HGet(d, k, f) == IF k \in DOMAIN d /\ f \in DOMAIN d[k].h THEN d[k].h[f] ELSE Nil
HSet(d, k, f, v) ==
  IF k \in DOMAIN d THEN [d EXCEPT ![k].h = (f :> v) @@ @]
  ELSE (k :> [h |-> (f :> v), exat |-> 0]) @@ d
HMSet(d, k, m) ==
  IF k \in DOMAIN d THEN [d EXCEPT ![k].h = m @@ @]
  ELSE (k :> [h |-> m, exat |-> 0]) @@ d
DelNothing(d, k) == d
Del(d, k) == [x \in DOMAIN d \ {k} |-> d[x]]
ExpireAt(d, k, at, clock) ==
  IF k \notin DOMAIN d THEN d
  ELSE IF at <= clock THEN Del(d, k)
  ELSE [d EXCEPT ![k].exat = at]
\* the keys whose expiry time has come are gone
Sweep(d, clock) ==
  [x \in {k \in DOMAIN d : d[k].exat = 0 \/ d[k].exat > clock} |-> d[x]]

\* may this backend call fail?
Fails == IF flaky THEN BOOLEAN ELSE {FALSE}

IdleTh ==
  [op |-> "none", pc |-> "idle", t |-> Nil, s |-> Nil, sk |-> <<>>, err |-> Nil,
   in |-> <<>>, at |-> 0, exp |-> 0, after |-> FALSE]
NoRn == [pc |-> "off"]
NoLs == [pc |-> "off"]

InFlight(x) == th[x].pc \notin {"idle", "ret", "done"}
\* another call is at work on key k
Busy(x, k) == \E y \in DOMAIN th : y # x /\ InFlight(y) /\ th[y].sk = k

\* history: a call on key k begins; after: k was revoked and left alone since
Enter(x, k) ==
  IF Busy(x, k) THEN [gh EXCEPT !.clean = @ \ {k}] ELSE gh
After(x, k) == ~Busy(x, k) /\ k \in gh.clean

(***************************************************************************)
(* Issue and registerToken.                                                *)
(***************************************************************************)
IssueCall(x, sub, exp, in) ==
  /\ th[x].pc = "idle"
  /\ nextId < MaxId
  /\ LET e1 == IF exp = 0 THEN st.DefaultExp ELSE exp
         e2 == IF e1 = -1 THEN 0 ELSE e1
         setFpI == \E i \in 1..4 : in[i] # ""
         t0 == New(sub, st.Issuer, st.Audience, e2, nextId + 1, now)
         t == IF setFpI
              THEN [t0 EXCEPT !.fpi = makeFootprint(0, in[1], in[2], in[3], in[4], now)]
              ELSE t0
         ve == validate(t, FALSE, now)
         c == [IdleTh EXCEPT !.op = "Issue", !.in = in, !.at = now, !.exp = exp]
     IN IF ~st.serlr
        THEN /\ th' = [th EXCEPT ![x] = [c EXCEPT !.pc = "ret", !.err = ErrNoSerializer]]
             /\ nextId' = nextId
        ELSE /\ nextId' = nextId + 1
             /\ th' = [th EXCEPT ![x] =
                   IF ve # Nil
                   THEN [c EXCEPT !.pc = "ret", !.t = t, !.s = stSerialize(t), !.err = ve]
                   ELSE [c EXCEPT !.pc = "rg_hmset", !.t = t, !.s = stSerialize(t),
                                  !.sk = makeStorageKey(st, t, FALSE)]]
  /\ UNCHANGED <<now, st, flaky, db, issued, gh, rn, ls>>

\* registerToken: st.redis.HMSet(sk, m); a call through the nil *redis.Client
\* of a Store without backend is a nil pointer dereference
RegHMSet(x) ==
  /\ th[x].pc = "rg_hmset"
  /\ \E f \in Fails :
       LET e == encStorageData(th[x].t)
           m == (mapKeys[1] :> e[1]) @@ (mapKeys[2] :> e[2]) @@ (mapKeys[3] :> e[3])
       IN IF ~st.redis
          THEN /\ th' = [th EXCEPT ![x].pc = "panic"]
               /\ UNCHANGED <<db, gh>>
          ELSE IF f
          THEN /\ th' = [th EXCEPT ![x].pc = "ret", ![x].err = BackendIOError(x)]
               /\ UNCHANGED <<db, gh>>
          ELSE /\ db' = HMSet(db, th[x].sk, m)
               /\ gh' = [gh EXCEPT !.reg = (th[x].sk :> m) @@ @,
                                  !.ok = IF th[x].t.Expires # 0 THEN @
                                         ELSE @ \cup {th[x].t}]
               /\ th' = [th EXCEPT ![x].pc =
                           IF th[x].t.Expires # 0 THEN "rg_expire" ELSE "ret"]
  /\ UNCHANGED <<now, st, flaky, issued, nextId, rn, ls>>

\* registerToken: st.redis.ExpireAt(sk, t.Expires + 5)
RegExpireAt(x) ==
  /\ th[x].pc = "rg_expire"
  /\ \E f \in Fails :
       IF f
       THEN /\ th' = [th EXCEPT ![x].pc = "ret", ![x].err = BackendIOError(x)]
            /\ UNCHANGED <<db, gh>>
       ELSE /\ db' = ExpireAt(db, th[x].sk, th[x].t.Expires + ExpireGrace, now)
            /\ gh' = [gh EXCEPT !.deleted = @ \cup (DOMAIN db \ DOMAIN db'),
                               !.ok = @ \cup {th[x].t}]
            /\ th' = [th EXCEPT ![x].pc = "ret"]
  /\ UNCHANGED <<now, st, flaky, issued, nextId, rn, ls>>

(***************************************************************************)
(* Access and accessToken.                                                 *)
(***************************************************************************)
AccessCall(x, t0, in) ==
  /\ th[x].pc = "idle"
  /\ LET s == stSerialize(t0)
         d == stDeserialize(s)
         setFpC == \E i \in 1..4 : in[i] # ""
         t == IF setFpC
              THEN [d.v EXCEPT !.fpc = makeFootprint(0, in[1], in[2], in[3], in[4], now)]
              ELSE d.v
         ve == validate(t, TRUE, now)
         sk == makeStorageKey(st, t, FALSE)
         c == [IdleTh EXCEPT !.op = "Access", !.s = s, !.in = in, !.at = now]
     IN IF ~st.serlr
        THEN /\ th' = [th EXCEPT ![x] = [c EXCEPT !.pc = "ret", !.err = ErrNoSerializer]]
             /\ gh' = gh
        ELSE IF d.err \/ d.v = Nil
        THEN /\ th' = [th EXCEPT ![x] =
                   [c EXCEPT !.pc = "ret",
                             !.err = IF d.err THEN CodecError(x) ELSE Nil]]
             /\ gh' = gh
        ELSE IF ve # Nil
        THEN /\ th' = [th EXCEPT ![x] =
                   [c EXCEPT !.pc = "ret", !.err = ve, !.sk = sk, !.after = After(x, sk)]]
             /\ gh' = gh
        ELSE /\ th' = [th EXCEPT ![x] =
                   [c EXCEPT !.pc = "ac_exists", !.t = t, !.sk = sk,
                             !.after = After(x, sk)]]
             /\ gh' = Enter(x, sk)
  /\ UNCHANGED <<now, st, flaky, db, issued, nextId, rn, ls>>

\* accessToken: st.redis.Exists(sk); through a nil *redis.Client it is a nil
\* pointer dereference
AcExists(x) ==
  /\ th[x].pc = "ac_exists"
  /\ \E f \in Fails :
       th' = [th EXCEPT ![x] =
               IF ~st.redis THEN [@ EXCEPT !.pc = "panic"]
               ELSE IF f THEN [@ EXCEPT !.pc = "ret", !.err = BackendIOError(x)]
               ELSE IF ~Exists(db, th[x].sk)
               THEN [@ EXCEPT !.pc = "ret", !.err = ErrUnregistered]
               ELSE [@ EXCEPT !.pc = "ac_hget"]]
  /\ UNCHANGED <<now, st, flaky, db, issued, nextId, gh, rn, ls>>

\* accessToken: st.redis.HGet(sk, "I") and msgpack.Unmarshal into t.fpi
AcHGet(x) ==
  /\ th[x].pc = "ac_hget"
  /\ \E f \in Fails :
       LET v == HGet(db, th[x].sk, mapKeys[2])
           d == DecodeFootprint(v)
       IN th' = [th EXCEPT ![x] =
               IF f THEN [@ EXCEPT !.pc = "ret", !.err = BackendIOError(x)]
               ELSE IF v = Nil
               THEN [@ EXCEPT !.pc = "ret", !.err = BackendMapError(x)]
               ELSE IF d.err
               THEN [@ EXCEPT !.pc = "ret", !.err = CodecError(x)]
               ELSE [@ EXCEPT !.pc = "ac_hset", !.t.fpi = d.v]]
  /\ UNCHANGED <<now, st, flaky, db, issued, nextId, gh, rn, ls>>

issueField == mapKeys[2]
\* the field accessToken writes the current footprint to
accessField == mapKeys[3]

\* accessToken: msgpack.Marshal(t.fpc) and st.redis.HSet(sk, "C", fpb)
AcHSet(x) ==
  /\ th[x].pc = "ac_hset"
  /\ \E f \in Fails :
       IF f
       THEN /\ th' = [th EXCEPT ![x].pc = "ret", ![x].err = BackendIOError(x)]
            /\ db' = db
       ELSE /\ db' = HSet(db, th[x].sk, accessField, EncodeFootprint(th[x].t.fpc))
            /\ th' = [th EXCEPT ![x].pc = "ret"]
  /\ UNCHANGED <<now, st, flaky, issued, nextId, gh, rn, ls>>

(***************************************************************************)
(* Revoke, called by a caller (op "Revoke") or by a task of RevokeN (op    *)
(* "Task").                                                                *)
(***************************************************************************)
\* where the caller of Revoke goes on when Revoke has returned
Returned(op) == IF op = "Revoke" THEN "ret" ELSE "tk_send"

\* Revoke(t) up to the first backend call
RevokeEnter(x, op, t) ==
  LET c == [IdleTh EXCEPT !.op = op, !.t = t]
      sk == makeStorageKey(st, t, FALSE)
  IN IF ~st.redis THEN [c EXCEPT !.pc = Returned(op), !.err = ErrNoBackend]
     ELSE IF t = Nil THEN [c EXCEPT !.pc = Returned(op), !.err = NilTokenError(x)]
     ELSE [c EXCEPT !.pc = "rv_exists", !.sk = sk, !.after = After(x, sk)]

RevokeCall(x, t) ==
  /\ th[x].pc = "idle"
  /\ th' = [th EXCEPT ![x] = RevokeEnter(x, "Revoke", t)]
  /\ gh' = IF th'[x].pc = "rv_exists" THEN Enter(x, th'[x].sk) ELSE gh
  /\ UNCHANGED <<now, st, flaky, db, issued, nextId, rn, ls>>

\* Revoke: st.redis.Exists(sk)
RvExists(x) ==
  /\ th[x].pc = "rv_exists"
  /\ \E f \in Fails :
       th' = [th EXCEPT ![x] =
               IF f THEN [@ EXCEPT !.pc = Returned(th[x].op), !.err = BackendIOError(x)]
               ELSE IF ~Exists(db, th[x].sk)
               THEN [@ EXCEPT !.pc = Returned(th[x].op), !.err = ErrUnregistered]
               ELSE [@ EXCEPT !.pc = "rv_del"]]
  /\ UNCHANGED <<now, st, flaky, db, issued, nextId, gh, rn, ls>>

\* Revoke: st.redis.Del(sk); the call returns nil
RvDel(x) ==
  /\ th[x].pc = "rv_del"
  /\ \E f \in Fails :
       IF f
       THEN /\ th' = [th EXCEPT ![x].pc = Returned(th[x].op),
                                ![x].err = BackendIOError(x)]
            /\ UNCHANGED <<db, gh>>
       ELSE /\ db' = Del(db, th[x].sk)
            /\ th' = [th EXCEPT ![x].pc = Returned(th[x].op)]
            /\ gh' = [gh EXCEPT
                  !.revoked = @ \cup {th[x].sk},
                  !.deleted = @ \cup (DOMAIN db \ DOMAIN db'),
                  !.dels = @ + Cardinality(DOMAIN db \ DOMAIN db'),
                  !.clean = IF Busy(x, th[x].sk) THEN @ \ {th[x].sk}
                            ELSE @ \cup {th[x].sk}]
  /\ UNCHANGED <<now, st, flaky, issued, nextId, rn, ls>>

(***************************************************************************)
(* The caller takes the result; the clock advances.                        *)
(***************************************************************************)
Return(x) ==
  /\ th[x].pc = "ret"
  /\ th' = [th EXCEPT ![x] = IdleTh]
  /\ issued' = IF th[x].op = "Issue" /\ th[x].s # Nil
                THEN issued \cup {th[x].t} ELSE issued
  /\ UNCHANGED <<now, st, flaky, db, nextId, gh, rn, ls>>

Tick(d) ==
  /\ now + d <= StartTime + MaxTime
  /\ now' = now + d
  /\ db' = Sweep(db, now')
  /\ gh' = [gh EXCEPT !.deleted = @ \cup (DOMAIN db \ DOMAIN db')]
  /\ UNCHANGED <<st, flaky, th, issued, nextId, rn, ls>>

(***************************************************************************)
(* The Store built by NewStore(client, serlr), its callers at work.        *)
(***************************************************************************)
NewStore(client, serlr) ==
  [redis |-> client, serlr |-> serlr, Namespace |-> "store-x", Issuer |-> "",
   Audience |-> <<>>, DefaultExp |-> DefaultExp]

NoHistory ==
  [reg |-> EmptyMap, deleted |-> {}, revoked |-> {}, clean |-> {}, dels |-> 0,
   ok |-> {}]

Init ==
  /\ now = StartTime
  /\ st = NewStore(TRUE, TRUE)
  /\ flaky = TRUE
  /\ db = EmptyMap
  /\ th = [x \in 1..NumProcs |-> IdleTh]
  /\ issued = {}
  /\ nextId = 0
  /\ gh = NoHistory
  /\ rn = NoRn
  /\ ls = NoLs

Next ==
  \/ \E x \in DOMAIN th, sub \in IssueSubjects, exp \in ExpDurations, in \in FpInputs :
       IssueCall(x, sub, exp, in)
  \/ \E x \in DOMAIN th : RegHMSet(x)
  \/ \E x \in DOMAIN th : RegExpireAt(x)
  \/ \E x \in DOMAIN th, t \in issued, in \in FpInputs : AccessCall(x, t, in)
  \/ \E x \in DOMAIN th : AcExists(x)
  \/ \E x \in DOMAIN th : AcHGet(x)
  \/ \E x \in DOMAIN th : AcHSet(x)
  \/ \E x \in DOMAIN th, t \in issued \cup {Nil} : RevokeCall(x, t)
  \/ \E x \in DOMAIN th : RvExists(x)
  \/ \E x \in DOMAIN th : RvDel(x)
  \/ \E x \in DOMAIN th : Return(x)
  \/ \E d \in TickSteps : Tick(d)

Spec == Init /\ [][Next]_vars

(***************************************************************************)
(* RevokeN: the dispatch loop, its tasks (the threads 1..len(ts), one per  *)
(* loop iteration), the error channel ec of capacity len(ts), the counter  *)
(* m, the WaitGroup wg.  The closure of a task reads the loop variable t   *)
(* when the task runs.                                                     *)
(***************************************************************************)
RevokeNArgs(ts) ==
  [pc |-> "call", ts |-> ts, i |-> 0, t |-> Nil, ec |-> <<>>, m |-> 0, wg |-> 0,
   n |-> 0, err |-> Nil, dels |-> 0]

SwallowedNone(err) == FALSE
\* the errors of Revoke a task keeps to itself
Swallowed(err) == err = ErrUnregistered

RnCall ==
  /\ rn.pc = "call"
  /\ rn' = IF ~st.redis THEN [rn EXCEPT !.pc = "ret", !.err = ErrNoBackend]
            ELSE IF Len(rn.ts) = 0 THEN [rn EXCEPT !.pc = "ret"]
            ELSE [rn EXCEPT !.pc = "range", !.i = 1]
  /\ UNCHANGED <<now, st, flaky, db, th, issued, nextId, gh, ls>>

\* for _, t := range ts { if nil == t { continue }
RnRange ==
  /\ rn.pc = "range"
  /\ rn' = IF rn.i > Len(rn.ts) THEN [rn EXCEPT !.pc = "wait"]
            ELSE IF rn.ts[rn.i] = Nil
            THEN [rn EXCEPT !.t = rn.ts[rn.i], !.i = @ + 1]
            ELSE [rn EXCEPT !.t = rn.ts[rn.i], !.pc = "select"]
  /\ UNCHANGED <<now, st, flaky, db, th, issued, nextId, gh, ls>>

\* select { case err = <-ec: return; default: wg.Add(1); go func() ... }
RnSelect ==
  /\ rn.pc = "select"
  /\ IF Len(rn.ec) > 0
     THEN /\ rn' = [rn EXCEPT !.pc = "ret", !.err = Head(rn.ec), !.ec = Tail(rn.ec),
                              !.n = rn.m, !.dels = gh.dels]
          /\ th' = th
     ELSE /\ rn' = [rn EXCEPT !.pc = "range", !.wg = @ + 1, !.i = @ + 1]
          /\ th' = [th EXCEPT ![rn.i].pc = "spawned"]
  /\ UNCHANGED <<now, st, flaky, db, issued, nextId, gh, ls>>

\* the task calls st.Revoke(t), t being the loop variable as it is now
TaskBegin(x) ==
  /\ th[x].pc = "spawned"
  /\ th' = [th EXCEPT ![x] = RevokeEnter(x, "Task", rn.t)]
  /\ gh' = IF th'[x].pc = "rv_exists" THEN Enter(x, th'[x].sk) ELSE gh
  /\ UNCHANGED <<now, st, flaky, db, issued, nextId, rn, ls>>

\* if err != nil && err != ErrUnregistered { ec <- err }
TaskSend(x) ==
  /\ th[x].pc = "tk_send"
  /\ IF th[x].err # Nil /\ ~Swallowed(th[x].err)
     THEN /\ Len(rn.ec) < Len(rn.ts)
          /\ rn' = [rn EXCEPT !.ec = Append(@, th[x].err)]
     ELSE rn' = rn
  /\ th' = [th EXCEPT ![x].pc = "tk_add"]
  /\ UNCHANGED <<now, st, flaky, db, issued, nextId, gh, ls>>

\* atomic.AddInt32(&m, 1), then the deferred wg.Done()
TaskAdd(x) ==
  /\ th[x].pc = "tk_add"
  /\ rn' = [rn EXCEPT !.m = @ + 1, !.wg = @ - 1]
  /\ th' = [th EXCEPT ![x].pc = "done"]
  /\ UNCHANGED <<now, st, flaky, db, issued, nextId, gh, ls>>

\* wg.Wait(); close(ec); err, _ = <-ec; return, the deferred n = int(m)
RnWait ==
  /\ rn.pc = "wait"
  /\ rn.wg = 0
  /\ rn' = [rn EXCEPT !.pc = "ret", !.n = rn.m, !.dels = gh.dels,
                      !.err = IF Len(rn.ec) > 0 THEN Head(rn.ec) ELSE Nil,
                      !.ec = IF Len(rn.ec) > 0 THEN Tail(rn.ec) ELSE <<>>]
  /\ UNCHANGED <<now, st, flaky, db, th, issued, nextId, gh, ls>>

\* a token as registerToken stores it, and its record
StoredToken(sub, id, in) ==
  LET t0 == New(sub, "", <<>>, 0, id, StartTime)
  IN IF in = <<"", "", "", "">> THEN t0
     ELSE [t0 EXCEPT !.fpi = makeFootprint(0, in[1], in[2], in[3], in[4], StartTime)]
Record(t) ==
  LET e == encStorageData(t)
  IN [h |-> (mapKeys[1] :> e[1]) @@ (mapKeys[2] :> e[2]) @@ (mapKeys[3] :> e[3]),
      exat |-> 0]
\* the backend that holds the records of the tokens of S
Registered(store, S) ==
  [k \in {makeStorageKey(store, t, FALSE) : t \in S} |->
     Record(CHOOSE t \in S : makeStorageKey(store, t, FALSE) = k)]

RnTokens == {StoredToken(1, id, <<"", "", "", "">>) : id \in 1..2}
SeqsUpTo(S, n) == UNION {[1..k -> S] : k \in 0..n}

InitRevokeN ==
  /\ now = StartTime
  /\ st = NewStore(TRUE, TRUE)
  /\ flaky = TRUE
  /\ \E S \in SUBSET RnTokens : db = Registered(st, S)
  /\ \E ts \in SeqsUpTo(RnTokens \cup {Nil}, MaxTs) :
       /\ rn = RevokeNArgs(ts)
       /\ th = [x \in 1..Len(ts) |-> IdleTh]
  /\ issued = {}
  /\ nextId = 0
  /\ gh = NoHistory
  /\ ls = NoLs

NextRevokeN ==
  \/ RnCall
  \/ RnRange
  \/ RnSelect
  \/ RnWait
  \/ \E x \in DOMAIN th : TaskBegin(x)
  \/ \E x \in DOMAIN th : RvExists(x)
  \/ \E x \in DOMAIN th : RvDel(x)
  \/ \E x \in DOMAIN th : TaskSend(x)
  \/ \E x \in DOMAIN th : TaskAdd(x)

SpecRevokeN == InitRevokeN /\ [][NextRevokeN]_vars

(***************************************************************************)
(* List: the scan iterator, the dispatch loop, the error channel ec of     *)
(* capacity 16, the result slice ts behind its mutex.  The tasks have no   *)
(* identity: nrun counts those that have not yet called retrieveToken,     *)
(* pend holds the results of those that have.  The closure of a task calls *)
(* it.Val() when the task runs.                                            *)
(***************************************************************************)
ListArgs(t) ==
  [pc |-> "call", tmpl |-> t, hits |-> <<>>, pos |-> 0, itErr |-> FALSE, ec |-> <<>>,
   ts |-> <<>>, nrun |-> 0, pend |-> EmptyBag, err |-> Nil, ret |-> <<>>]

\* does key k match the catch-all pattern pat?
Matches(k, pat) ==
  /\ Len(k) = Len(pat)
  /\ \A i \in 1..(Len(pat) - 1) : k[i] = pat[i]

\* the keys of K in the order the scan returns them: by id
ScanOrder(K) ==
  [i \in 1..Cardinality(K) |->
     CHOOSE a \in K :
       Cardinality({b \in K : b[Len(b)].b64 < a[Len(a)].b64}) = i - 1]

\* (*ScanIterator).Val: the key at the cursor, "" once the scan has failed
ItVal == IF ~ls.itErr /\ ls.pos > 0 /\ ls.pos <= Len(ls.hits) THEN ls.hits[ls.pos]
         ELSE <<>>

\* decStorageData(tk, bi, bc): [t, err]
decStorageData(tk, bi, bc) ==
  LET dt == DecodeToken(tk)
      di == DecodeFootprint(bi)
      dc == DecodeFootprint(bc)
  IN IF tk = MpEmpty \/ tk = MpNil THEN [t |-> Nil, err |-> Nil]
     ELSE IF dt.err THEN [t |-> Nil, err |-> CodecError(0)]
     ELSE IF di.err THEN [t |-> dt.v, err |-> CodecError(0)]
     ELSE IF dc.err THEN [t |-> [dt.v EXCEPT !.fpi = di.v], err |-> CodecError(0)]
     ELSE [t |-> [dt.v EXCEPT !.fpi = di.v, !.fpc = dc.v], err |-> Nil]

\* retrieveToken(k) on the key space d; f: the HMGet fails
retrieveToken(d, k, f) ==
  IF f THEN [t |-> Nil, err |-> BackendIOError(0)]
  ELSE IF \E i \in 1..3 : HGet(d, k, mapKeys[i]) = Nil THEN [t |-> Nil, err |-> Nil]
  ELSE decStorageData(HGet(d, k, mapKeys[1]), HGet(d, k, mapKeys[2]),
                      HGet(d, k, mapKeys[3]))

\* st.redis.Scan(0, makeStorageKey(t, true), 10).Iterator()
ListCall ==
  /\ ls.pc = "call"
  /\ IF ~st.redis THEN ls' = [ls EXCEPT !.pc = "ret", !.err = ErrNoBackend]
     ELSE IF ls.tmpl = Nil THEN ls' = [ls EXCEPT !.pc = "ret"]
     ELSE \E f \in Fails :
            IF f THEN ls' = [ls EXCEPT !.pc = "next", !.itErr = TRUE]
            ELSE ls' = [ls EXCEPT !.pc = "next", !.hits =
                   ScanOrder({k \in DOMAIN db :
                                Matches(k, makeStorageKey(st, ls.tmpl, TRUE))})]
  /\ UNCHANGED <<now, st, flaky, db, th, issued, nextId, gh, rn>>

\* it.Next(): the next key of the page, or the fetch of a further page
ListNext ==
  /\ ls.pc = "next"
  /\ \E f \in Fails :
       ls' = IF ls.itErr THEN [ls EXCEPT !.pc = "after"]
             ELSE IF f THEN [ls EXCEPT !.pc = "after", !.itErr = TRUE]
             ELSE IF ls.pos < Len(ls.hits) THEN [ls EXCEPT !.pc = "select", !.pos = @ + 1]
             ELSE [ls EXCEPT !.pc = "after"]
  /\ UNCHANGED <<now, st, flaky, db, th, issued, nextId, gh, rn>>

\* select { case err = <-ec: return; default: wg.Add(1); go func() ... }
ListSelect ==
  /\ ls.pc = "select"
  /\ ls' = IF Len(ls.ec) > 0
            THEN [ls EXCEPT !.pc = "ret", !.err = Head(ls.ec), !.ec = Tail(ls.ec),
                            !.ret = ls.ts]
            ELSE [ls EXCEPT !.pc = "next", !.nrun = @ + 1]
  /\ UNCHANGED <<now, st, flaky, db, th, issued, nextId, gh, rn>>

\* if err := it.Err(); nil != err { return nil, ... }
ListAfter ==
  /\ ls.pc = "after"
  /\ ls' = IF ls.itErr
            THEN [ls EXCEPT !.pc = "ret", !.err = BackendIOError(0), !.ret = <<>>]
            ELSE [ls EXCEPT !.pc = "wait"]
  /\ UNCHANGED <<now, st, flaky, db, th, issued, nextId, gh, rn>>

\* wg.Wait(); close(ec); if err, _ = <-ec; nil != err { return nil, err }; return
ListWait ==
  /\ ls.pc = "wait"
  /\ ls.nrun = 0 /\ ls.pend = EmptyBag
  /\ ls' = IF Len(ls.ec) > 0
            THEN [ls EXCEPT !.pc = "ret", !.err = Head(ls.ec), !.ec = Tail(ls.ec),
                            !.ret = <<>>]
            ELSE [ls EXCEPT !.pc = "ret", !.ret = ls.ts]
  /\ UNCHANGED <<now, st, flaky, db, th, issued, nextId, gh, rn>>

\* a task: t, err = st.retrieveToken(it.Val())
LTaskRun ==
  /\ ls.nrun > 0
  /\ \E f \in Fails :
       ls' = [ls EXCEPT !.nrun = @ - 1,
                       !.pend = @ (+) SetToBag({retrieveToken(db, ItVal, f)})]
  /\ UNCHANGED <<now, st, flaky, db, th, issued, nextId, gh, rn>>

\* a task: ec <- err, or ts = append(ts, t) under the mutex; wg.Done()
LTaskPost(r) ==
  /\ BagIn(r, ls.pend)
  /\ IF r.err # Nil
     THEN /\ Len(ls.ec) < ListErrCap
          /\ ls' = [ls EXCEPT !.pend = @ (-) SetToBag({r}), !.ec = Append(@, r.err)]
     ELSE ls' = [ls EXCEPT !.pend = @ (-) SetToBag({r}),
                          !.ts = IF r.t # Nil THEN Append(@, r.t) ELSE @]
  /\ UNCHANGED <<now, st, flaky, db, th, issued, nextId, gh, rn>>

\* the tokens of the listed subject, and one of another subject
LsTokens(k) ==
  {StoredToken(1, id, IF id = 1 THEN <<"1.2.3.4", "r", "o", "ua">>
                      ELSE <<"", "", "", "">>) : id \in 1..k}
OtherToken == StoredToken(2, MaxHits + 1, <<"", "", "", "">>)
Template(sub) == [StoredToken(sub, ZeroUUID, <<"", "", "", "">>) EXCEPT !.Issued = 0]

InitList ==
  /\ now = StartTime
  /\ st = NewStore(TRUE, TRUE)
  /\ flaky \in BOOLEAN
  /\ \E k \in 0..MaxHits : db = Registered(st, LsTokens(k) \cup {OtherToken})
  /\ \E t \in {Template(1), Template(2), Nil} : ls = ListArgs(t)
  /\ th = EmptyMap
  /\ issued = {}
  /\ nextId = 0
  /\ gh = NoHistory
  /\ rn = NoRn

NextList ==
  \/ ListCall
  \/ ListNext
  \/ ListSelect
  \/ ListAfter
  \/ ListWait
  \/ LTaskRun
  \/ \E r \in BagToSet(ls.pend) : LTaskPost(r)

SpecList == InitList /\ [][NextList]_vars

\* records of one subject, one more than the error channel holds, and none
\* of which decodes
Undecodable(store, n) ==
  [k \in {makeStorageKey(store, StoredToken(1, id, <<"", "", "", "">>), FALSE) :
            id \in 1..n} |->
     [h |-> (mapKeys[1] :> MpGarbage) @@ (mapKeys[2] :> MpNil) @@ (mapKeys[3] :> MpNil),
      exat |-> 0]]

InitListMany ==
  /\ now = StartTime
  /\ st = NewStore(TRUE, TRUE)
  /\ flaky = FALSE
  /\ \E n \in 1..(ListErrCap + 1) : db = Undecodable(st, n)
  /\ ls = ListArgs(Template(1))
  /\ th = EmptyMap
  /\ issued = {}
  /\ nextId = 0
  /\ gh = NoHistory
  /\ rn = NoRn

SpecListMany == InitListMany /\ [][NextList]_vars

(***************************************************************************)
(* One caller and a clock that advances second by second: the expiry of a  *)
(* token and of its record.                                                *)
(***************************************************************************)
ExpiryDurations == {0, -1, 0 - Second, 3 * Second, 5 * Second, 6 * Second}

InitExpiry ==
  /\ now = StartTime
  /\ st = NewStore(TRUE, TRUE)
  /\ flaky = FALSE
  /\ db = EmptyMap
  /\ th = [x \in {1} |-> IdleTh]
  /\ issued = {}
  /\ nextId = 0
  /\ gh = NoHistory
  /\ rn = NoRn
  /\ ls = NoLs

NextExpiry ==
  \/ \E x \in DOMAIN th, sub \in IssueSubjects, exp \in ExpiryDurations, in \in FpInputs :
       IssueCall(x, sub, exp, in)
  \/ \E x \in DOMAIN th : RegHMSet(x)
  \/ \E x \in DOMAIN th : RegExpireAt(x)
  \/ \E x \in DOMAIN th, t \in issued, in \in FpInputs : AccessCall(x, t, in)
  \/ \E x \in DOMAIN th : AcExists(x)
  \/ \E x \in DOMAIN th : AcHGet(x)
  \/ \E x \in DOMAIN th : AcHSet(x)
  \/ \E x \in DOMAIN th : Return(x)
  \/ Tick(1)

SpecExpiry == InitExpiry /\ [][NextExpiry]_vars

(***************************************************************************)
(* validate on its own: tokens with any fields, with and without the       *)
(* not-before check, at any time.                                          *)
(***************************************************************************)
ValidateTokens ==
  {[Id |-> i, Subject |-> sub, Issuer |-> "", Audience |-> <<>>, Issued |-> iat,
    NotBefore |-> nbf, Expires |-> e, fpi |-> Nil, fpc |-> Nil] :
     i \in {ZeroUUID, 1}, sub \in {ZeroUUID, 1},
     iat \in {0, StartTime, StartTime + 2},
     nbf \in {0, StartTime - 5, StartTime - 4, StartTime - 3},
     e \in {0, StartTime + 5, StartTime + 6, StartTime + 7}}

\* t.validate(nbfCheck)
ValidateCall(x, nbfCheck) ==
  /\ th[x].pc = "idle"
  /\ th' = [th EXCEPT ![x].pc = "ret",
                      ![x].op = IF nbfCheck THEN "validate(true)" ELSE "validate(false)",
                      ![x].at = now,
                      ![x].err = validate(th[x].t, nbfCheck, now)]
  /\ UNCHANGED <<now, st, flaky, db, issued, nextId, gh, rn, ls>>

InitValidate ==
  /\ now = StartTime
  /\ st = NewStore(TRUE, TRUE)
  /\ flaky = FALSE
  /\ db = EmptyMap
  /\ \E t \in ValidateTokens : th = [x \in {1} |-> [IdleTh EXCEPT !.t = t]]
  /\ issued = {}
  /\ nextId = 0
  /\ gh = NoHistory
  /\ rn = NoRn
  /\ ls = NoLs

NextValidate ==
  \/ \E x \in DOMAIN th, nbfCheck \in BOOLEAN : ValidateCall(x, nbfCheck)
  \/ Tick(1)

SpecValidate == InitValidate /\ [][NextValidate]_vars

(***************************************************************************)
(* Every public operation on a Store with or without backend and           *)
(* serializer: one caller of Issue, Access and Revoke, one RevokeN and one *)
(* List.                                                                   *)
(***************************************************************************)
ConfigToken == StoredToken(1, 1, <<"", "", "", "">>)
\* the caller of Issue, Access and Revoke; the other entries of th are the
\* tasks of RevokeN
Caller == 2

InitConfig ==
  /\ now = StartTime
  /\ \E client \in BOOLEAN, serlr \in BOOLEAN : st = NewStore(client, serlr)
  /\ flaky = FALSE
  /\ db = IF st.redis THEN Registered(st, {ConfigToken}) ELSE EmptyMap
  /\ th = [x \in {1, Caller} |-> IdleTh]
  /\ issued = {}
  /\ nextId = 0
  /\ gh = NoHistory
  /\ rn = RevokeNArgs(<<ConfigToken>>)
  /\ ls = ListArgs(Template(1))

NextConfig ==
  \/ \E exp \in {0, -1}, in \in FpInputs : IssueCall(Caller, 2, exp, in)
  \/ RegHMSet(Caller)
  \/ RegExpireAt(Caller)
  \/ \E in \in FpInputs : AccessCall(Caller, ConfigToken, in)
  \/ AcExists(Caller)
  \/ AcHGet(Caller)
  \/ AcHSet(Caller)
  \/ \E t \in {ConfigToken, Nil} : RevokeCall(Caller, t)
  \/ RvExists(Caller)
  \/ RvDel(Caller)
  \/ Return(Caller)
  \/ NextRevokeN
  \/ NextList

SpecConfig == InitConfig /\ [][NextConfig]_vars

(***************************************************************************)
(* The serializer: genericDeserialize on string tokens.  A string is a     *)
(* sequence of characters; a byte slice is a sequence of numbers.          *)
(***************************************************************************)
MaxRemainder == 6   \* characters after the header in a deserialized string

header == <<"a", "u", "t", "h", ".">>
ErrBadFormat == [kind |-> "BadFormat", src |-> 0, io |-> FALSE]
ErrBadSign == [kind |-> "BadSign", src |-> 0, io |-> FALSE]
CorruptInputError == [kind |-> "CorruptInput", src |-> 0, io |-> FALSE]
EOF == [kind |-> "EOF", src |-> 0, io |-> FALSE]
DecodeError == [kind |-> "DecodeError", src |-> 0, io |-> FALSE]

HasPrefix(s, pre) == Len(s) >= Len(pre) /\ SubSeq(s, 1, Len(pre)) = pre

\* index of the first c in s counted from 0, or -1
IndexByte(s, c) ==
  IF \E k \in 1..Len(s) : s[k] = c
  THEN (CHOOSE k \in 1..Len(s) : s[k] = c /\ \A j \in 1..(k - 1) : s[j] # c) - 1
  ELSE -1

\* the URL alphabet of base64
B64Alphabet ==
  <<"A", "B", "C", "D", "E", "F", "G", "H", "I", "J", "K", "L", "M",
    "N", "O", "P", "Q", "R", "S", "T", "U", "V", "W", "X", "Y", "Z",
    "a", "b", "c", "d", "e", "f", "g", "h", "i", "j", "k", "l", "m",
    "n", "o", "p", "q", "r", "s", "t", "u", "v", "w", "x", "y", "z",
    "0", "1", "2", "3", "4", "5", "6", "7", "8", "9", "-", "_">>

\* value of a character in the URL alphabet of base64, -1 outside of it
B64Val(c) ==
  IF \E v \in DOMAIN B64Alphabet : B64Alphabet[v] = c
  THEN (CHOOSE v \in DOMAIN B64Alphabet : B64Alphabet[v] = c) - 1
  ELSE -1

\* the byte a character of the alphabet is written as
Ascii(c) ==
  LET v == B64Val(c)
  IN  CASE v < 26 -> 65 + v
        [] v < 52 -> 97 + (v - 26)
        [] v < 62 -> 48 + (v - 52)
        [] v = 62 -> 45
        [] OTHER  -> 95

\* base64.RawURLEncoding encoding of the bytes b: four characters for three
\* bytes, two or three for a last group of one or two, no padding
EncodeToString(b) ==
  LET n == Len(b)
      m == 4 * (n \div 3) + (IF n % 3 = 0 THEN 0 ELSE (n % 3) + 1)
      byte(j) == IF j <= n THEN b[j] ELSE 0
      val(k) ==
        LET g == 3 * ((k - 1) \div 4)
        IN  CASE (k - 1) % 4 = 0 -> byte(g + 1) \div 4
              [] (k - 1) % 4 = 1 -> (byte(g + 1) % 4) * 16 + (byte(g + 2) \div 16)
              [] (k - 1) % 4 = 2 -> (byte(g + 2) % 16) * 4 + (byte(g + 3) \div 64)
              [] OTHER           -> byte(g + 3) % 64
  IN  [k \in 1..m |-> B64Alphabet[val(k) + 1]]

\* base64.RawURLEncoding.DecodeString: the bytes of the complete groups of
\* four characters before the first bad one, the bytes of a last group of two
\* or three, and CorruptInputError on a bad character or a last group of one
DecodeString(seg) ==
  LET bad == {k \in 1..Len(seg) : B64Val(seg[k]) < 0}
      v   == IF bad = {} THEN Len(seg)
             ELSE (CHOOSE k \in bad : \A j \in bad : k <= j) - 1
      q   == v \div 4
      r   == v % 4
      ok  == bad = {} /\ r # 1
      n   == IF ok /\ r > 0 THEN 3 * q + (r - 1) ELSE 3 * q
      c(k) == IF k <= v THEN B64Val(seg[k]) ELSE 0
      byte(j) ==
        LET g == 4 * ((j - 1) \div 3)
        IN  CASE (j - 1) % 3 = 0 -> c(g + 1) * 4 + (c(g + 2) \div 16)
              [] (j - 1) % 3 = 1 -> (c(g + 2) % 16) * 16 + (c(g + 3) \div 4)
              [] OTHER           -> (c(g + 3) % 4) * 64 + c(g + 4)
  IN  [b |-> [j \in 1..n |-> byte(j)],
       err |-> IF ok THEN Nil ELSE CorruptInputError]

\* msgpack Decode into the payload struct: a map header is required, and the
\* bytes used here can only spell the empty map (0x80)
MsgpackDecode(b) ==
  IF Len(b) = 0 THEN EOF
  ELSE IF b[1] = 128 THEN Nil
  ELSE DecodeError

\* mpd.Decode reading through base64.NewDecoder: the decoder hands over the
\* bytes of the groups before a bad character and its error after them, so
\* the error is met only if the value needs more bytes than these
StreamDecode(dec) ==
  IF MsgpackDecode(dec.b) = EOF /\ dec.err = CorruptInputError
  THEN ErrBadFormat
  ELSE MsgpackDecode(dec.b)

\* outcomes of compareSign: none configured, or one that accepts or rejects
Verifiers == {"nil", "accept", "reject"}
compareSign(cs, p, sig) == IF cs = "accept" THEN Nil ELSE ErrBadSign

Remainders == UNION {[1..n -> {"A", "g", ".", "!"}] : n \in 0..MaxRemainder}
StringTokens ==
  {h \o r : h \in {header, <<"a", "u", "t", "h">>, <<>>}, r \in Remainders}

IdleDs ==
  [op |-> "Deserialize", pc |-> "idle", s |-> <<>>, cs |-> "nil",
   p |-> <<>>, sig |-> <<>>, err |-> Nil, pdone |-> FALSE, sdone |-> FALSE,
   called |-> FALSE, tried |-> FALSE, payload |-> "untouched"]

\* the payload decoded before the signature is looked at
AfterWaitUnmasked(d) ==
  IF d.err # Nil
  THEN [d EXCEPT !.pc = "ret",
                 !.err = IF d.err = CorruptInputError THEN ErrBadFormat ELSE @]
  ELSE IF MsgpackDecode(d.p) # Nil
  THEN [d EXCEPT !.pc = "ret", !.tried = TRUE, !.err = MsgpackDecode(d.p)]
  ELSE [d EXCEPT !.pc = "ret", !.called = TRUE, !.tried = TRUE,
                 !.err = compareSign(d.cs, d.p, d.sig),
                 !.payload = "decoded"]

\* the rest of genericDeserialize once err is settled after wg.Wait
AfterWait(d) ==
  IF d.err # Nil
  THEN [d EXCEPT !.pc = "ret",
                 !.err = IF d.err = CorruptInputError THEN ErrBadFormat ELSE @]
  ELSE IF compareSign(d.cs, d.p, d.sig) # Nil
  THEN [d EXCEPT !.pc = "ret", !.called = TRUE,
                 !.err = compareSign(d.cs, d.p, d.sig)]
  ELSE [d EXCEPT !.pc = "ret", !.called = TRUE, !.tried = TRUE,
                 !.err = MsgpackDecode(d.p),
                 !.payload = IF MsgpackDecode(d.p) = Nil THEN "decoded" ELSE @]

\* genericDeserialize up to the start of the two decoding goroutines; without
\* compareSign, the whole call
DeserializeCall(x, s, cs) ==
  LET H == Len(header)
      r == SubSeq(s, H + 1, Len(s))
      i == IndexByte(r, ".")
      d == [IdleDs EXCEPT !.s = s, !.cs = cs]
      dec == DecodeString(r)
  IN  /\ th[x].pc = "idle"
      /\ UNCHANGED <<now, st, flaky, db, issued, nextId, gh, rn, ls>>
      /\ IF Len(s) <= H \/ ~HasPrefix(s, header)
         THEN th' = [th EXCEPT ![x] = [d EXCEPT !.pc = "ret", !.err = ErrBadFormat]]
         ELSE IF cs = "nil"
         THEN th' = [th EXCEPT ![x] =
                [d EXCEPT !.pc = "ret", !.p = dec.b, !.tried = TRUE,
                          !.err = StreamDecode(dec),
                          !.payload = IF StreamDecode(dec) = Nil
                                      THEN "decoded" ELSE @]]
         ELSE IF i < 0 \/ i = Len(r) - 1
         THEN th' = [th EXCEPT ![x] = [d EXCEPT !.pc = "ret", !.err = ErrBadFormat]]
         ELSE th' = [th EXCEPT ![x] = [d EXCEPT !.pc = "wait"]]

\* go goB64Decode(s[:i], &p): writes p and the err shared with the other task
GoDecodePayload(x) ==
  LET r == SubSeq(th[x].s, Len(header) + 1, Len(th[x].s))
      dec == DecodeString(SubSeq(r, 1, IndexByte(r, ".")))
  IN  /\ th[x].pc = "wait" /\ ~th[x].pdone
      /\ th' = [th EXCEPT ![x].pdone = TRUE, ![x].p = dec.b, ![x].err = dec.err]
      /\ UNCHANGED <<now, st, flaky, db, issued, nextId, gh, rn, ls>>

\* go goB64Decode(s[i+1:], &sig)
GoDecodeSig(x) ==
  LET r == SubSeq(th[x].s, Len(header) + 1, Len(th[x].s))
      dec == DecodeString(SubSeq(r, IndexByte(r, ".") + 2, Len(r)))
  IN  /\ th[x].pc = "wait" /\ ~th[x].sdone
      /\ th' = [th EXCEPT ![x].sdone = TRUE, ![x].sig = dec.b, ![x].err = dec.err]
      /\ UNCHANGED <<now, st, flaky, db, issued, nextId, gh, rn, ls>>

\* wg.Wait returns, then compareSign and the msgpack decoding
DeserializeWait(x) ==
  /\ th[x].pc = "wait" /\ th[x].pdone /\ th[x].sdone
  /\ th' = [th EXCEPT ![x] = AfterWait(th[x])]
  /\ UNCHANGED <<now, st, flaky, db, issued, nextId, gh, rn, ls>>

DeserializeReturn(x) ==
  /\ th[x].pc = "ret"
  /\ th' = [th EXCEPT ![x] = IdleDs]
  /\ UNCHANGED <<now, st, flaky, db, issued, nextId, gh, rn, ls>>

InitDeserialize ==
  /\ now = StartTime
  /\ st = NewStore(TRUE, TRUE)
  /\ flaky = FALSE
  /\ db = EmptyMap
  /\ th = [x \in {1} |-> IdleDs]
  /\ issued = {}
  /\ nextId = 0
  /\ gh = NoHistory
  /\ rn = RevokeNArgs(<<>>)
  /\ ls = ListArgs(Template(1))

NextDeserialize ==
  \/ /\ th[1].pc = "idle"
     /\ \E s \in StringTokens, cs \in Verifiers : DeserializeCall(1, s, cs)
  \/ GoDecodePayload(1)
  \/ GoDecodeSig(1)
  \/ DeserializeWait(1)
  \/ DeserializeReturn(1)

SpecDeserialize == InitDeserialize /\ [][NextDeserialize]_vars

(***************************************************************************)
(* The sign methods: writeSign and compareSign of hmacSerializer and       *)
(* cryptoSerializer.  The primitives of the crypto library are ideal: a    *)
(* digest is an injective image of its input, and a signature verifies     *)
(* exactly when the key produced it for that digest.                       *)
(***************************************************************************)
SignNone == 0
SignHMAC == 1
SignRSA == 2
SignPSS == 3
SignECDSA == 4
maxSignMethod == 5
rsaKeyMinLen == 1024
hmacKeyMinLen == 256

\* P.BitLen() of the curves of crypto/elliptic: P-224, P-256, P-384, P-521
CurveBits == {224, 256, 384, 521}
\* bytes of the largest number below the order of a curve
CurveBytes(bits) == (bits + 7) \div 8

HashSize == 5      \* bytes of a digest in the model
SignPayloads == {<<128>>, <<128, 1>>, <<129, 1>>}

\* sr.hash.New, Write, Sum: an injective image of b, HashSize bytes wide
hashDigest(b) ==
  [j \in 1..HashSize |-> IF j = 1 THEN Len(b)
                         ELSE IF j - 1 <= Len(b) THEN b[j - 1] ELSE 0]

\* big.Int.Bytes of a number of len bytes: no leading zero byte
BigBytes(lead, len) == [j \in 1..len |-> IF j = 1 THEN lead ELSE 0]

\* big.Int.SetBytes: leading zero bytes do not change the number
SetBytes(b) ==
  LET nz == {j \in 1..Len(b) : b[j] # 0}
  IN  IF nz = {} THEN <<>>
      ELSE SubSeq(b, CHOOSE j \in nz : \A i \in nz : j <= i, Len(b))

\* ecdsaSign after ecdsa.Sign returned r and s with the bytes rb and sb
ecdsaSign(bits, rb, sb) ==
  LET n == bits \div 4
      k == n \div 2
  IN  IF k - Len(rb) < 0 \/ n - Len(sb) < 0
      THEN [panic |-> TRUE, sig |-> <<>>]
      ELSE [panic |-> FALSE,
            sig |-> [j \in 1..n |->
                       IF j > n - Len(sb) THEN sb[j - (n - Len(sb))]
                       ELSE IF j > k - Len(rb) /\ j - (k - Len(rb)) <= Len(rb)
                       THEN rb[j - (k - Len(rb))]
                       ELSE 0]]

\* ecdsaCompare; signed holds what the key has signed
ecdsaCompare(bits, h, sig, signed) ==
  LET k == bits \div 8
  IN  IF Len(sig) # 2 * k THEN ErrBadSign
      ELSE IF <<h, SetBytes(SubSeq(sig, 1, k)),
                   SetBytes(SubSeq(sig, k + 1, Len(sig)))>> \in signed
      THEN Nil
      ELSE ErrBadSign

\* rsa.SignPKCS1v15 and rsa.SignPSS: as many bytes as the modulus has; salt
\* tells two PSS signatures of one digest apart
rsaSign(bits, h, salt) ==
  [j \in 1..(bits \div 8) |-> IF j = 1 THEN salt
                              ELSE IF j - 1 <= Len(h) THEN h[j - 1] ELSE 0]

\* rsaCompare: every error of the library becomes ErrBadSign
rsaCompare(bits, h, sig, signed) ==
  IF Len(sig) = bits \div 8 /\ <<h, sig>> \in signed THEN Nil ELSE ErrBadSign

\* hmacSerializer.writeSign: the keyed digest
hmacSign(key, b) == <<key>> \o hashDigest(b)

\* hmacSerializer.compareSign: bytes.Equal with the digest computed anew
hmacCompare(key, b, sig) == IF hmacSign(key, b) = sig THEN Nil ELSE ErrBadSign

HmacKey == 7
IdleSg ==
  [op |-> "Sign", pc |-> "idle", m |-> SignNone, bits |-> 0, b |-> <<>>,
   sig |-> <<>>, signed |-> {}, pb |-> <<>>, psig |-> <<>>, err |-> Nil]

\* writeSign of the serializer of method m over payload b; rl and sl are the
\* byte lengths of the numbers ecdsa.Sign draws, salt the salt of rsa.SignPSS;
\* signed is what the key has signed by it
writeSign(m, bits, b, rl, sl, salt) ==
  LET h == hashDigest(b)
      rb == BigBytes(1, rl)
      sb == BigBytes(salt, sl)
      e == ecdsaSign(bits, rb, sb)
  IN  CASE m = SignHMAC ->
             [panic |-> FALSE, sig |-> hmacSign(HmacKey, b), signed |-> {}]
        [] m \in {SignRSA, SignPSS} ->
             [panic |-> FALSE, sig |-> rsaSign(bits, h, salt),
              signed |-> {<<h, rsaSign(bits, h, salt)>>}]
        [] OTHER ->
             [panic |-> e.panic, sig |-> e.sig, signed |-> {<<h, rb, sb>>}]

\* compareSign of the serializer of method m
serializerCompareSign(m, bits, b, sig, signed) ==
  CASE m = SignHMAC -> hmacCompare(HmacKey, b, sig)
    [] m \in {SignRSA, SignPSS} -> rsaCompare(bits, hashDigest(b), sig, signed)
    [] OTHER -> ecdsaCompare(bits, hashDigest(b), sig, signed)

WriteSign(x, m, bits, b, rl, sl, salt) ==
  LET w == writeSign(m, bits, b, rl, sl, salt)
      c == [IdleSg EXCEPT !.m = m, !.bits = bits, !.b = b]
  IN  /\ th[x].pc = "idle"
      /\ UNCHANGED <<now, st, flaky, db, issued, nextId, gh, rn, ls>>
      /\ th' = [th EXCEPT ![x] =
           IF w.panic THEN [c EXCEPT !.pc = "panic"]
           ELSE [c EXCEPT !.pc = "signed", !.sig = w.sig, !.signed = w.signed]]

\* one byte of b replaced, or b a byte shorter or longer
Tampered(b) ==
  {[b EXCEPT ![j] = (@ + 1) % 256] : j \in {1, Len(b)} \cap DOMAIN b}
    \cup {Append(b, 0), <<0>> \o b}
    \cup (IF Len(b) > 0 THEN {SubSeq(b, 1, Len(b) - 1)} ELSE {})

\* compareSign of the same serializer over payload b and signature sig
CompareSign(x, b, sig) ==
  LET d == th[x]
  IN  /\ d.pc = "signed"
      /\ UNCHANGED <<now, st, flaky, db, issued, nextId, gh, rn, ls>>
      /\ th' = [th EXCEPT ![x].pc = "ret", ![x].pb = b, ![x].psig = sig,
                          ![x].err =
           serializerCompareSign(d.m, d.bits, b, sig, d.signed)]

SignReturn(x) ==
  /\ th[x].pc = "ret"
  /\ th' = [th EXCEPT ![x] = IdleSg]
  /\ UNCHANGED <<now, st, flaky, db, issued, nextId, gh, rn, ls>>

InitSign ==
  /\ now = StartTime
  /\ st = NewStore(TRUE, TRUE)
  /\ flaky = FALSE
  /\ db = EmptyMap
  /\ th = [x \in {1} |-> IdleSg]
  /\ issued = {}
  /\ nextId = 0
  /\ gh = NoHistory
  /\ rn = RevokeNArgs(<<>>)
  /\ ls = ListArgs(Template(1))

NextSign ==
  \/ \E b \in SignPayloads : WriteSign(1, SignHMAC, 0, b, 1, 1, 1)
  \/ \E b \in SignPayloads : WriteSign(1, SignRSA, rsaKeyMinLen, b, 1, 1, 1)
  \/ \E b \in SignPayloads, salt \in {1, 2} :
       WriteSign(1, SignPSS, rsaKeyMinLen, b, 1, 1, salt)
  \/ \E b \in SignPayloads, bits \in CurveBits, dr \in {0, 1}, ds \in {0, 1} :
       WriteSign(1, SignECDSA, bits, b,
                 CurveBytes(bits) - dr, CurveBytes(bits) - ds, 1)
  \/ \E b \in {th[1].b} \cup Tampered(th[1].b),
        sig \in {th[1].sig} \cup Tampered(th[1].sig) : CompareSign(1, b, sig)
  \/ SignReturn(1)

SpecSign == InitSign /\ [][NextSign]_vars

(***************************************************************************)
(* genericSerialize: the string token of a binary payload.                 *)
(***************************************************************************)
\* what mpe.Encode may have written: byte slices of every length modulo 3
SerializePayloads ==
  SignPayloads \cup {<<255>>, <<128, 255>>, <<130, 1, 255>>, <<0, 0, 0>>}

\* the bytes of a string of the alphabet
AsciiBytes(str) == [j \in 1..Len(str) |-> Ascii(str[j])]

\* the signature computed over the base64 form of the payload
genericSerializeOverB64(m, bits, b, rl, sl, salt) ==
  LET w == IF m = SignNone
           THEN [panic |-> FALSE, sig |-> <<>>, signed |-> {}]
           ELSE writeSign(m, bits, AsciiBytes(EncodeToString(b)), rl, sl, salt)
  IN  [panic |-> w.panic, sig |-> w.sig, signed |-> w.signed,
       s |-> header \o EncodeToString(b) \o
             (IF m = SignNone THEN <<>> ELSE <<".">> \o EncodeToString(w.sig))]

\* genericSerialize of the payload bytes b with the writeSign of method m, nil
\* for SignNone
genericSerialize(m, bits, b, rl, sl, salt) ==
  LET w == IF m = SignNone
           THEN [panic |-> FALSE, sig |-> <<>>, signed |-> {}]
           ELSE writeSign(m, bits, b, rl, sl, salt)
  IN  [panic |-> w.panic, sig |-> w.sig, signed |-> w.signed,
       s |-> header \o EncodeToString(b) \o
             (IF m = SignNone THEN <<>> ELSE <<".">> \o EncodeToString(w.sig))]

IdleSr ==
  [op |-> "Serialize", pc |-> "idle", m |-> SignNone, bits |-> 0, b |-> <<>>,
   s |-> <<>>, sig |-> <<>>, signed |-> {}, err |-> Nil]

SerializeCall(x, m, bits, b, rl, sl, salt) ==
  LET g == genericSerialize(m, bits, b, rl, sl, salt)
      c == [IdleSr EXCEPT !.m = m, !.bits = bits, !.b = b]
  IN  /\ th[x].pc = "idle"
      /\ UNCHANGED <<now, st, flaky, db, issued, nextId, gh, rn, ls>>
      /\ th' = [th EXCEPT ![x] =
           IF g.panic THEN [c EXCEPT !.pc = "panic"]
           ELSE [c EXCEPT !.pc = "ret", !.s = g.s, !.sig = g.sig,
                          !.signed = g.signed]]

SerializeReturn(x) ==
  /\ th[x].pc = "ret"
  /\ th' = [th EXCEPT ![x] = IdleSr]
  /\ UNCHANGED <<now, st, flaky, db, issued, nextId, gh, rn, ls>>

InitSerialize ==
  /\ now = StartTime
  /\ st = NewStore(TRUE, TRUE)
  /\ flaky = FALSE
  /\ db = EmptyMap
  /\ th = [x \in {1} |-> IdleSr]
  /\ issued = {}
  /\ nextId = 0
  /\ gh = NoHistory
  /\ rn = RevokeNArgs(<<>>)
  /\ ls = ListArgs(Template(1))

NextSerialize ==
  \/ \E b \in SerializePayloads : SerializeCall(1, SignNone, 0, b, 1, 1, 1)
  \/ \E b \in SerializePayloads : SerializeCall(1, SignHMAC, 0, b, 1, 1, 1)
  \/ \E b \in SerializePayloads :
       SerializeCall(1, SignRSA, rsaKeyMinLen, b, 1, 1, 1)
  \/ \E b \in SerializePayloads, salt \in {1, 2} :
       SerializeCall(1, SignPSS, rsaKeyMinLen, b, 1, 1, salt)
  \/ \E b \in SerializePayloads, bits \in CurveBits, dr \in {0, 1}, ds \in {0, 1} :
       SerializeCall(1, SignECDSA, bits, b,
                     CurveBytes(bits) - dr, CurveBytes(bits) - ds, 1)
  \/ SerializeReturn(1)

SpecSerialize == InitSerialize /\ [][NextSerialize]_vars

(***************************************************************************)
(* The codecs on their own: the string token of a Token, the three blobs   *)
(* of a record, and the storage key.                                       *)
(***************************************************************************)
\* audiences: none, one or two entries, an entry that holds a NUL, an empty
\* entry alone and after another
CodecAudiences ==
  {<<>>, <<<<"a">>>>, <<<<"a">>, <<"b", "c">>>>, <<<<"a", NUL, "b">>>>,
   <<<<>>>>, <<<<"a">>, <<>>>>}

CodecFootprints ==
  {Nil} \cup {makeFootprint(7, in[1], in[2], in[3], in[4], StartTime) : in \in FpInputs}

CodecTokens ==
  {Nil} \cup
  {[Id |-> i, Subject |-> 1, Issuer |-> iss, Audience |-> aud,
    Issued |-> StartTime, NotBefore |-> 0, Expires |-> e, fpi |-> f1, fpc |-> f2] :
     i \in {ZeroUUID, 1}, iss \in {"", "iss"}, aud \in CodecAudiences,
     e \in {0, StartTime + 2 * ValidateSkew},
     f1 \in CodecFootprints, f2 \in CodecFootprints}

CodecBlobs == {MpNil, MpEmpty, MpGarbage} \cup {EncodeFootprint(f) : f \in CodecFootprints}

IdleCd ==
  [op |-> "Codec", pc |-> "idle", t |-> Nil, p |-> FALSE, enc |-> <<>>,
   out |-> Nil, key |-> <<>>]

\* Deserialize(Serialize(t)) of a serializer without sign method
SerializeRoundTrip(x, t) ==
  /\ th[x].pc = "idle" /\ t # Nil
  /\ th' = [th EXCEPT ![x] = [IdleCd EXCEPT !.op = "Serialize", !.pc = "ret", !.t = t,
                                            !.out = stDeserialize(stSerialize(t))]]
  /\ UNCHANGED <<now, st, flaky, db, issued, nextId, gh, rn, ls>>

\* decStorageData of the three blobs of encStorageData(t)
StorageRoundTrip(x, t) ==
  LET e == encStorageData(t)
  IN  /\ th[x].pc = "idle"
      /\ th' = [th EXCEPT ![x] = [IdleCd EXCEPT !.op = "Storage", !.pc = "ret", !.t = t,
                                                !.enc = e,
                                                !.out = decStorageData(e[1], e[2], e[3])]]
      /\ UNCHANGED <<now, st, flaky, db, issued, nextId, gh, rn, ls>>

\* decStorageData of a record without a token in its first field
DecodeRecord(x, tk, bi, bc) ==
  /\ th[x].pc = "idle"
  /\ th' = [th EXCEPT ![x] = [IdleCd EXCEPT !.op = "Decode", !.pc = "ret",
                                            !.enc = <<tk, bi, bc>>,
                                            !.out = decStorageData(tk, bi, bc)]]
  /\ UNCHANGED <<now, st, flaky, db, issued, nextId, gh, rn, ls>>

MakeKey(x, t, p) ==
  /\ th[x].pc = "idle"
  /\ th' = [th EXCEPT ![x] = [IdleCd EXCEPT !.op = "Key", !.pc = "ret", !.t = t,
                                            !.p = p,
                                            !.key = makeStorageKey(st, t, p)]]
  /\ UNCHANGED <<now, st, flaky, db, issued, nextId, gh, rn, ls>>

CodecReturn(x) ==
  /\ th[x].pc = "ret"
  /\ th' = [th EXCEPT ![x] = IdleCd]
  /\ UNCHANGED <<now, st, flaky, db, issued, nextId, gh, rn, ls>>

InitCodec ==
  /\ now = StartTime
  /\ \E ns \in {"", "store-x"} : st = [NewStore(TRUE, TRUE) EXCEPT !.Namespace = ns]
  /\ flaky = FALSE
  /\ db = EmptyMap
  /\ th = [x \in {1} |-> IdleCd]
  /\ issued = {}
  /\ nextId = 0
  /\ gh = NoHistory
  /\ rn = RevokeNArgs(<<>>)
  /\ ls = ListArgs(Template(1))

NextCodec ==
  \/ \E t \in CodecTokens : SerializeRoundTrip(1, t)
  \/ \E t \in CodecTokens : StorageRoundTrip(1, t)
  \/ \E tk \in {MpNil, MpEmpty}, bi \in CodecBlobs, bc \in CodecBlobs :
       DecodeRecord(1, tk, bi, bc)
  \/ \E t \in CodecTokens, p \in BOOLEAN : MakeKey(1, t, p)
  \/ CodecReturn(1)

SpecCodec == InitCodec /\ [][NextCodec]_vars

(***************************************************************************)
(* serializer.New: the constructor of the five serializers.                *)
(***************************************************************************)
\* errorf(efBadHash, ...) and the other errors of the constructors
BadHash == [kind |-> "BadHash", src |-> 0, io |-> FALSE]
BadKeyType == [kind |-> "BadKeyType", src |-> 0, io |-> FALSE]
BadKeyLen == [kind |-> "BadKeyLen", src |-> 0, io |-> FALSE]
BadMethod == [kind |-> "BadMethod", src |-> 0, io |-> FALSE]
UndefMethod == [kind |-> "UndefMethod", src |-> 0, io |-> FALSE]
InvalidKey == [kind |-> "InvalidKey", src |-> 0, io |-> FALSE]

\* hashes: the zero crypto.Hash, one that is linked in, one that is not
NewHashes == {[id |-> 0, available |-> FALSE], [id |-> 5, available |-> TRUE],
              [id |-> 9, available |-> FALSE]}

\* keys: no key, a string, byte slices, RSA and ECDSA private keys (pointers,
\* possibly nil; n: bytes of the slice or bits of the modulus; valid:
\* k.Validate() finds nothing wrong)
NewKeys ==
  {[type |-> "none", ptr |-> FALSE, n |-> 0, valid |-> FALSE],
   [type |-> "string", ptr |-> TRUE, n |-> 0, valid |-> FALSE]}
  \cup {[type |-> "bytes", ptr |-> TRUE, n |-> n, valid |-> TRUE] :
          n \in {3, hmacKeyMinLen - 1, hmacKeyMinLen}}
  \cup {[type |-> "rsa", ptr |-> TRUE, n |-> n, valid |-> v] :
          n \in {rsaKeyMinLen - 1, rsaKeyMinLen, 2 * rsaKeyMinLen}, v \in BOOLEAN}
  \cup {[type |-> "rsa", ptr |-> FALSE, n |-> 0, valid |-> FALSE],
        [type |-> "ecdsa", ptr |-> TRUE, n |-> 256, valid |-> TRUE],
        [type |-> "ecdsa", ptr |-> FALSE, n |-> 0, valid |-> FALSE]}

NewMethods == SignNone..(maxSignMethod + 1)

\* the results of a constructor: a serializer, an error, or a panic
NewOk(ser) == [panic |-> FALSE, ser |-> ser, err |-> Nil]
NewErr(e) == [panic |-> FALSE, ser |-> Nil, err |-> e]
NewPanic == [panic |-> TRUE, ser |-> Nil, err |-> Nil]

\* SignMethod.isValid
isValid(sm) == sm <= maxSignMethod

newHmacSerializer(key, hash) ==
  IF ~hash.available THEN NewErr(BadHash)
  ELSE IF key.type # "bytes" THEN NewErr(BadKeyType)
  ELSE IF key.n < hmacKeyMinLen THEN NewErr(BadKeyLen)
  ELSE NewOk([impl |-> "hmacSerializer", m |-> SignHMAC, key |-> key, hash |-> hash])

\* newCryptoSerializer: the type assertion looks at the type of the key only,
\* and k.Validate() of a nil *rsa.PrivateKey dereferences it
newCryptoSerializer(sm, key, hash) ==
  IF ~hash.available THEN NewErr(BadHash)
  ELSE IF sm \in {SignRSA, SignPSS}
  THEN IF key.type # "rsa" THEN NewErr(BadKeyType)
       ELSE IF ~key.ptr THEN NewPanic
       ELSE IF ~key.valid THEN NewErr(InvalidKey)
       ELSE IF key.n < rsaKeyMinLen THEN NewErr(BadKeyLen)
       ELSE NewOk([impl |-> "cryptoSerializer", m |-> sm, key |-> key, hash |-> hash])
  ELSE IF sm = SignECDSA
  THEN IF key.type # "ecdsa" THEN NewErr(BadKeyType)
       ELSE NewOk([impl |-> "cryptoSerializer", m |-> sm, key |-> key, hash |-> hash])
  ELSE NewErr(BadMethod)

\* serializer.New
serializerNew(method, key, hash) ==
  IF ~isValid(method) THEN NewErr(UndefMethod)
  ELSE IF method = SignNone
  THEN NewOk([impl |-> "genericSerializer", m |-> SignNone, key |-> key, hash |-> hash])
  ELSE IF method = SignHMAC THEN newHmacSerializer(key, hash)
  ELSE newCryptoSerializer(method, key, hash)

IdleNw ==
  [op |-> "New", pc |-> "idle", method |-> SignNone,
   key |-> [type |-> "none", ptr |-> FALSE, n |-> 0, valid |-> FALSE],
   hash |-> [id |-> 0, available |-> FALSE], ser |-> Nil, err |-> Nil]

NewCall(x, method, key, hash) ==
  LET r == serializerNew(method, key, hash)
  IN  /\ th[x].pc = "idle"
      /\ th' = [th EXCEPT ![x] =
           [IdleNw EXCEPT !.pc = IF r.panic THEN "panic" ELSE "ret",
                          !.method = method, !.key = key, !.hash = hash,
                          !.ser = r.ser, !.err = r.err]]
      /\ UNCHANGED <<now, st, flaky, db, issued, nextId, gh, rn, ls>>

NewReturn(x) ==
  /\ th[x].pc = "ret"
  /\ th' = [th EXCEPT ![x] = IdleNw]
  /\ UNCHANGED <<now, st, flaky, db, issued, nextId, gh, rn, ls>>

InitNew ==
  /\ now = StartTime
  /\ st = NewStore(TRUE, FALSE)
  /\ flaky = FALSE
  /\ db = EmptyMap
  /\ th = [x \in {1} |-> IdleNw]
  /\ issued = {}
  /\ nextId = 0
  /\ gh = NoHistory
  /\ rn = RevokeNArgs(<<>>)
  /\ ls = ListArgs(Template(1))

NextNew ==
  \/ \E method \in NewMethods, key \in NewKeys, hash \in NewHashes :
       NewCall(1, method, key, hash)
  \/ NewReturn(1)

SpecNew == InitNew /\ [][NextNew]_vars

(***************************************************************************)
(* The HTTP adapter: AuthorizeHandler around a wrapped handler, and Access *)
(* on any string.  th[Handler] is the request being served, th[Caller] the *)
(* call of Issue, Access or Revoke at work.  A string is the record of its *)
(* header, its payload and whether its signature verifies.                 *)
(***************************************************************************)
Handler == 1

StatusUnauthorized == 401
StatusInternalServerError == 500
StatusServiceUnavailable == 503

\* errors.New / fmt.Errorf, and &StoreHttpError{Code, Message}
errorsNew(msg) == [kind |-> "error", Message |-> msg]
StoreHttpError(code, msg) == [kind |-> "StoreHttpError", Code |-> code, Message |-> msg]

\* the tokens of the requests: registered without and with expiry, with a
\* zero subject, never registered, and not valid before StartTime + 3
AuthLive == ConfigToken
AuthExpiring == [StoredToken(1, 2, <<"", "", "", "">>) EXCEPT !.Expires = StartTime + 6]
AuthZeroSubject == [ConfigToken EXCEPT !.Subject = ZeroUUID]
AuthUnknown == StoredToken(1, 3, <<"", "", "", "">>)
AuthNotYet == [StoredToken(1, 4, <<"", "", "", "">>) EXCEPT !.NotBefore = StartTime + 3]
AuthTokens == {AuthLive, AuthExpiring, AuthZeroSubject, AuthUnknown, AuthNotYet}

\* serlr.Serialize(t) with a signature that verifies
AuthString(t) == [hdr |-> "auth.", payload |-> EncodeToken(t), sig |-> "ok"]
AuthStrings ==
  {AuthString(t) : t \in AuthTokens \cup {Nil}}
    \cup {[hdr |-> "auth.", payload |-> MpGarbage, sig |-> "ok"],
          [hdr |-> "auth.", payload |-> EncodeToken(AuthLive), sig |-> "bad"],
          [hdr |-> "bogus", payload |-> EncodeToken(AuthLive), sig |-> "ok"]}

\* the Authorization header: nothing, another scheme, "Bearer " alone,
\* "Bearer " and a string
AuthHeaders ==
  {[prefix |-> "", rest |-> Nil], [prefix |-> "Bearer ", rest |-> Nil],
   [prefix |-> "Basic ", rest |-> AuthString(AuthLive)]}
    \cup {[prefix |-> "Bearer ", rest |-> str] : str \in AuthStrings}

\* RemoteAddr, Referer, Origin, User-Agent of the request
AuthFpInputs == FpInputs \cup {<<"::1", "", "", "">>}

\* st.serlr.Deserialize(s, &t): [err, v]; the header, then the signature, then
\* the payload
serlrDeserialize(str) ==
  IF str.hdr # "auth." THEN [err |-> ErrBadFormat, v |-> Nil]
  ELSE IF str.sig # "ok" THEN [err |-> ErrBadSign, v |-> Nil]
  ELSE IF DecodeToken(str.payload).err THEN [err |-> DecodeError, v |-> Nil]
  ELSE [err |-> Nil, v |-> DecodeToken(str.payload).v]

\* accessToken validating before the first backend call
AccessEnterLookupFirst(x, str, in) ==
  LET d == serlrDeserialize(str)
      c == [IdleTh EXCEPT !.op = "Access", !.s = str, !.in = in, !.at = now]
      sk == makeStorageKey(st, d.v, FALSE)
  IN IF d.err # Nil \/ d.v = Nil THEN [c EXCEPT !.pc = "ret", !.err = d.err]
     ELSE IF ~Exists(db, sk)
     THEN [c EXCEPT !.pc = "ret", !.err = ErrUnregistered, !.sk = sk,
                    !.after = After(x, sk)]
     ELSE IF validate(d.v, TRUE, now) # Nil
     THEN [c EXCEPT !.pc = "ret", !.err = validate(d.v, TRUE, now), !.sk = sk,
                    !.after = After(x, sk)]
     ELSE [c EXCEPT !.pc = "ac_exists", !.t = d.v, !.sk = sk, !.after = After(x, sk)]

\* Access(s, ...) up to the first backend call of accessToken
AccessEnter(x, str, in) ==
  LET d == serlrDeserialize(str)
      setFpC == \E i \in 1..4 : in[i] # ""
      t == IF setFpC
           THEN [d.v EXCEPT !.fpc = makeFootprint(0, in[1], in[2], in[3], in[4], now)]
           ELSE d.v
      ve == validate(t, TRUE, now)
      sk == makeStorageKey(st, t, FALSE)
      c == [IdleTh EXCEPT !.op = "Access", !.s = str, !.in = in, !.at = now]
  IN IF ~st.serlr THEN [c EXCEPT !.pc = "ret", !.err = ErrNoSerializer]
     ELSE IF d.err # Nil \/ d.v = Nil THEN [c EXCEPT !.pc = "ret", !.err = d.err]
     ELSE IF ve # Nil
     THEN [c EXCEPT !.pc = "ret", !.err = ve, !.sk = sk, !.after = After(x, sk)]
     ELSE [c EXCEPT !.pc = "ac_exists", !.t = t, !.sk = sk, !.after = After(x, sk)]

\* what Access returns to its caller: (t, nil), or (nil, err)
AccessResult(c) == [t |-> IF c.err = Nil THEN c.t ELSE Nil, err |-> c.err]

\* Access called on a string, from outside the adapter
AccessString(x, str, in) ==
  /\ th[x].pc = "idle"
  /\ th[Handler].pc = "idle"
  /\ th' = [th EXCEPT ![x] = AccessEnter(x, str, in)]
  /\ gh' = IF th'[x].pc = "ac_exists" THEN Enter(x, th'[x].sk) ELSE gh
  /\ UNCHANGED <<now, st, flaky, db, issued, nextId, rn, ls>>

\* processAuthHeader before Access: the error it returns, or Nil
processAuthHeaderEarly(store, hdr) ==
  IF ~store.serlr \/ ~store.redis
  THEN StoreHttpError(StatusServiceUnavailable,
                      IF ~store.redis THEN "Service Unavailable (Auth/Storage)"
                      ELSE "Service Unavailable (Auth/Serializer)")
  ELSE IF hdr.prefix = "" /\ hdr.rest = Nil THEN errorsNew("No Authorization Header")
  ELSE IF hdr.rest = Nil \/ hdr.prefix # "Bearer "
  THEN errorsNew("Malformed Authorization Header")
  ELSE Nil

\* *StoreError values and their codec and backend fields
IsStoreError(e) ==
  e.kind \in {"Unregistered", "NoBackend", "NoSerializer", "BackendError",
              "CodecError", "StoreError"}
IsCodecError(e) == e.kind \in {"NoSerializer", "CodecError"}
IsBackendError(e) == e.kind \in {"NoBackend", "BackendError"}

\* processAuthHeader answering every StoreError with 500
processAuthHeaderCodec500(t, err) ==
  IF err = Nil THEN [t |-> t, err |-> Nil]
  ELSE IF err.kind = "ValidationError"
  THEN [t |-> t, err |-> errorsNew("Authorization Token Invalid")]
  ELSE IF IsStoreError(err)
  THEN [t |-> Nil, err |-> StoreHttpError(StatusInternalServerError, "Internal Error")]
  ELSE [t |-> t, err |-> err]

\* processAuthHeader after Access has returned (t, err): what it returns
processAuthHeader(t, err) ==
  IF err = Nil THEN [t |-> t, err |-> Nil]
  ELSE IF err = ErrUnregistered
  THEN [t |-> Nil, err |-> errorsNew("Authorization Token Revoked, Unregistered")]
  ELSE IF err.kind = "ValidationError"
  THEN [t |-> t,
        err |-> errorsNew(IF err.exp THEN "Authorization Token Expired"
                          ELSE IF err.nbf THEN "Authorization Token Used Before NBF"
                          ELSE "Authorization Token Invalid (Internal/Undisclosed)")]
  ELSE IF IsStoreError(err)
  THEN IF IsCodecError(err) THEN [t |-> Nil, err |-> errorsNew("Bad Authorization")]
       ELSE [t |-> Nil,
             err |-> StoreHttpError(StatusInternalServerError,
                                    IF IsBackendError(err) THEN "Storage Error"
                                    ELSE "Internal Error")]
  ELSE [t |-> t, err |-> err]

\* setCtxErr and setCtxToken: the value under st.ctxKey in the context of the
\* request handed on; ctx is the value before
setCtxErr(ctx, err) ==
  IF err = Nil THEN ctx
  ELSE IF err.kind # "StoreHttpError"
  THEN StoreHttpError(StatusUnauthorized, err)
  ELSE err
setCtxToken(ctx, t) == IF t = Nil THEN ctx ELSE t

IdleHd ==
  [pc |-> "idle", sk |-> <<>>, hdr |-> Nil, in |-> <<>>, res |-> Nil, ctx |-> Nil,
   w |-> Nil, served |-> 0]

\* the outside handler once processAuthHeader has returned (t, err): it calls
\* the wrapped handler
Serve(h, res, t, err) ==
  IF err # Nil
  THEN [h EXCEPT !.pc = "done", !.res = res, !.w = h.hdr,
                 !.ctx = setCtxErr(Nil, err), !.served = @ + 1]
  ELSE [h EXCEPT !.pc = "done", !.res = res, !.ctx = setCtxToken(Nil, t),
                 !.served = @ + 1]

\* a request arrives: processAuthHeader up to the first backend call of Access
ServeHTTP(hdr, in) ==
  /\ th[Handler].pc = "idle"
  /\ th[Caller].pc = "idle"
  /\ LET h == [IdleHd EXCEPT !.hdr = hdr, !.in = in]
         early == processAuthHeaderEarly(st, hdr)
         c == AccessEnter(Caller, hdr.rest, in)
     IN IF early # Nil
        THEN /\ th' = [th EXCEPT ![Handler] = Serve(h, Nil, Nil, early)]
             /\ gh' = gh
        ELSE /\ th' = [th EXCEPT ![Handler] = [h EXCEPT !.pc = "wait"], ![Caller] = c]
             /\ gh' = IF c.pc = "ac_exists" THEN Enter(Caller, c.sk) ELSE gh
  /\ UNCHANGED <<now, st, flaky, db, issued, nextId, rn, ls>>

\* Access has returned to processAuthHeader
ServeReturn ==
  /\ th[Handler].pc = "wait"
  /\ th[Caller].pc = "ret"
  /\ LET res == AccessResult(th[Caller])
         p == processAuthHeader(res.t, res.err)
     IN th' = [th EXCEPT ![Handler] = Serve(th[Handler], res, p.t, p.err),
                         ![Caller] = IdleTh]
  /\ UNCHANGED <<now, st, flaky, db, issued, nextId, gh, rn, ls>>

\* the wrapped handler has returned
ServeDone ==
  /\ th[Handler].pc = "done"
  /\ th' = [th EXCEPT ![Handler] = IdleHd]
  /\ UNCHANGED <<now, st, flaky, db, issued, nextId, gh, rn, ls>>

\* Issue, Access or Revoke called from outside the adapter returns
CallerReturn ==
  /\ th[Handler].pc = "idle"
  /\ Return(Caller)

InitAuthorize ==
  /\ now = StartTime
  /\ \E client \in BOOLEAN, serlr \in BOOLEAN : st = NewStore(client, serlr)
  /\ flaky = TRUE
  /\ db = IF st.redis
          THEN ExpireAt(Registered(st, {AuthLive, AuthExpiring}),
                        makeStorageKey(st, AuthExpiring, FALSE),
                        AuthExpiring.Expires + ExpireGrace, now)
          ELSE EmptyMap
  /\ th = [x \in {Handler, Caller} |-> IF x = Handler THEN IdleHd ELSE IdleTh]
  /\ issued = {}
  /\ nextId = MaxId - 1     \* the Store has one more token to issue
  /\ gh = NoHistory
  /\ rn = NoRn
  /\ ls = NoLs

NextAuthorize ==
  \/ /\ th[Handler].pc = "idle"
     /\ \E hdr \in AuthHeaders, in \in AuthFpInputs : ServeHTTP(hdr, in)
  \/ ServeReturn
  \/ ServeDone
  \/ /\ th[Caller].pc = "idle" /\ st.redis /\ st.serlr
     /\ \E str \in AuthStrings, in \in AuthFpInputs : AccessString(Caller, str, in)
  \/ AcExists(Caller)
  \/ AcHGet(Caller)
  \/ AcHSet(Caller)
  \/ /\ th[Handler].pc = "idle" /\ st.redis /\ st.serlr
     /\ \E in \in AuthFpInputs : IssueCall(Caller, 2, 5 * Second, in)
  \/ RegHMSet(Caller)
  \/ RegExpireAt(Caller)
  \/ /\ th[Handler].pc = "idle" /\ st.redis
     /\ RevokeCall(Caller, AuthExpiring)
  \/ RvExists(Caller)
  \/ RvDel(Caller)
  \/ CallerReturn
  \/ Tick(ExpireGrace)

SpecAuthorize == InitAuthorize /\ [][NextAuthorize]_vars

(***************************************************************************)
(* Properties.                                                             *)
(***************************************************************************)
\* the token Issue returned whose storage key is k
IssuedAs(k) == CHOOSE t \in issued : makeStorageKey(st, t, FALSE) = k
\* a call that began after key k was revoked, with no other call on k at work
\* since the revocation
Later(x) ==
  /\ th[x].pc = "ret"
  /\ th[x].op \in {"Access", "Revoke"}
  /\ th[x].after
  /\ th[x].sk \in gh.clean

\* a step of a call that began after its key was revoked and left alone
LaterLeavesBackend ==
  \A x \in DOMAIN th :
    (th[x].after /\ th[x].sk \in gh.clean /\ th'[x] # th[x]) => db' = db

\* C1: once a Revoke of a token has returned success, no record exists under
\* the token's storage key, whatever Access calls were at work meanwhile.
NoRecordAfterRevoke == \A k \in gh.revoked : k \notin DOMAIN db

AccessSideEffects ==
  [][\A x \in DOMAIN th :
       (th[x].pc = "ac_hset" /\ th'[x].pc = "ret" /\ th'[x].err = Nil
          /\ th[x].sk \notin gh.deleted)
       => LET k == th[x].sk
              t0 == IssuedAs(k)
              in == th[x].in
              fp == IF \E i \in 1..4 : in[i] # ""
                    THEN makeFootprint(0, in[1], in[2], in[3], in[4], th[x].at)
                    ELSE Nil
          IN /\ th'[x].t.fpi = t0.fpi
             /\ DecodeFootprint(db'[k].h["C"]) = [err |-> FALSE, v |-> fp]
             /\ db'[k].h["_"] = db[k].h["_"] /\ db'[k].h["I"] = db[k].h["I"]
             /\ db'[k].h["_"] = EncodeToken(t0)
             /\ db'[k].h["I"] = EncodeFootprint(t0.fpi)]_vars

AccessedWithFootprints ==
  \E x \in DOMAIN th :
    /\ th[x].pc = "ret" /\ th[x].op = "Access" /\ th[x].err = Nil
    /\ th[x].t.fpi # Nil /\ th[x].t.fpc # Nil
    /\ th[x].sk \notin gh.deleted
    /\ th[x].sk \in DOMAIN db
    /\ db[th[x].sk].h["C"] = EncodeFootprint(th[x].t.fpc)

\* C4: the count RevokeN returns is the number of records its tasks deleted.
RevokeNCountsDeletions == rn.pc = "ret" => rn.n = rn.dels

\* C5: when RevokeN returns a nil error, no non-nil token of ts has a record.
RevokeNRevokesAll ==
  (rn.pc = "ret" /\ rn.err = Nil) =>
    \A i \in 1..Len(rn.ts) :
      rn.ts[i] # Nil => makeStorageKey(st, rn.ts[i], FALSE) \notin DOMAIN db

\* the tasks of RevokeN whose Revoke has failed with an error other than
\* Unregistered
FailedTasks ==
  {x \in DOMAIN th : /\ th[x].pc \in {"tk_send", "tk_add", "done"}
                     /\ th[x].err # Nil /\ th[x].err # ErrUnregistered}

FanOutJoins ==
  /\ ls.pc = "ret" => ls.nrun = 0 /\ ls.pend = EmptyBag
  /\ rn.pc = "ret" => \A x \in DOMAIN th : th[x].pc \in {"idle", "done"}

\* the registered tokens of the subject of the template
ListedSubject ==
  {t \in LsTokens(MaxHits) \cup {OtherToken} :
     /\ t.Subject = ls.tmpl.Subject
     /\ makeStorageKey(st, t, FALSE) \in DOMAIN db}

\* C8: with no backend or decode failure, List returns exactly the registered
\* tokens of the subject, each exactly once.
ListComplete ==
  (ls.pc = "ret" /\ ~flaky /\ ls.tmpl # Nil) =>
    /\ ls.err = Nil
    /\ {ls.ret[i] : i \in 1..Len(ls.ret)} = ListedSubject
    /\ Len(ls.ret) = Cardinality(ListedSubject)

\* C9: whenever List returns a non-nil error the slice it returns is nil.
ListErrorNilSlice == (ls.pc = "ret" /\ ls.err # Nil) => Len(ls.ret) = 0

\* C10: a fan-out always returns and none of its tasks blocks forever: as long
\* as the call has not returned or a task is not done, a step can be taken.
FanOutReturns ==
  \/ ls.pc = "ret" /\ ls.nrun = 0 /\ ls.pend = EmptyBag
  \/ ENABLED NextList

\* the error is a ValidationError with the expired flag
IsExpiredErr(e) == e # Nil /\ e.kind = "ValidationError" /\ e.exp
\* the token of the string handed to the Access call of caller x
Presented(x) == stDeserialize(th[x].s).v
AccessReturned(x) ==
  th[x].pc = "ret" /\ th[x].op = "Access" /\ Presented(x) # Nil

\* C11: after a successful Issue and no Revoke, the record of a token with
\* expires_at # 0 exists at every time before expires_at + 5 and at no time from
\* expires_at + 5 on; the record of a token with expires_at = 0 exists and has
\* no expiry.
RecordUntilExpiry ==
  \A t \in gh.ok :
    LET k == makeStorageKey(st, t, FALSE)
    IN k \notin gh.revoked =>
         IF t.Expires # 0
         THEN k \in DOMAIN db <=> now < t.Expires + 5
         ELSE k \in DOMAIN db /\ db[k].exat = 0

ValidPastExpiry ==
  \A x \in DOMAIN th : AccessReturned(x) =>
    LET t == Presented(x)
    IN (t.Expires # 0 /\ t.Expires >= th[x].at - 5) => ~IsExpiredErr(th[x].err)

\* an Issue call of caller x whose duration places expires_at in the past
IssuedInPast(x) ==
  th[x].pc = "ret" /\ th[x].op = "Issue" /\ th[x].exp < -1
\* an Access of a string whose token expired before it was issued
AccessOfPast(x) ==
  AccessReturned(x) /\ Presented(x).Expires # 0
    /\ Presented(x).Expires < Presented(x).Issued

IssueExpiry ==
  \A x \in DOMAIN th : (th[x].op = "Issue" /\ th[x].t # Nil) =>
    LET t == th[x].t
        d == th[x].exp
    IN /\ d = 0 => t.Expires = th[x].at + 72 * 3600
       /\ d = -1 =>
            /\ t.Expires = 0
            /\ (th[x].pc = "ret" /\ th[x].err = Nil) =>
                  th[x].sk \in DOMAIN db /\ db[th[x].sk].exat = 0
       /\ d \notin {0, -1} => t.Expires = th[x].at + (d \div Second)

IssuedWithoutExpiry ==
  \E x \in DOMAIN th :
    /\ th[x].op = "Issue" /\ th[x].pc = "ret" /\ th[x].err = Nil
    /\ th[x].exp = -1 /\ th[x].t.Expires = 0
    /\ th[x].sk \in DOMAIN db /\ db[th[x].sk].exat = 0

\* validate has returned to caller x
Validated(x) == th[x].pc = "ret" /\ th[x].op \in {"validate(true)", "validate(false)"}
\* the error is a ValidationError with the not-before flag
IsNotBeforeErr(e) == e # Nil /\ e.kind = "ValidationError" /\ e.nbf

IssueSucceeds(x) ==
  /\ th[x].op = "Issue" /\ th[x].pc \in {"rg_hmset", "rg_expire"}
  /\ th'[x].pc = "ret" /\ th'[x].err = Nil
  /\ th[x].t.Expires = 0 \/ now < th[x].t.Expires + 5
\* the four footprint strings of the call of caller x are empty
NoFootprintInput(x) == \A i \in 1..4 : th[x].in[i] = ""
\* the record of the token of caller x after the step: C is the nil sentinel,
\* I is the encoding of the footprint built from the inputs of the call
RecordAsIssued(x) ==
  /\ th[x].sk \in DOMAIN db'
  /\ db'[th[x].sk].h["C"] = MpNil
  /\ ~NoFootprintInput(x) =>
       db'[th[x].sk].h["I"] =
         EncodeFootprint(makeFootprint(0, th[x].in[1], th[x].in[2], th[x].in[3],
                                       th[x].in[4], th[x].at))

\* C17 as stated: immediately after a successful Issue the record exists, C is
\* the nil sentinel, and I is the nil sentinel if and only if all four
\* footprint strings were empty; otherwise I is the encoded issue footprint.
IssueRecordByInputs ==
  [][\A x \in DOMAIN th : IssueSucceeds(x) =>
       /\ RecordAsIssued(x)
       /\ db'[th[x].sk].h["I"] = MpNil <=> NoFootprintInput(x)]_vars

\* C17 amended: I is the nil sentinel if and only if all four footprint strings
\* were empty or the remote address was non-empty and no IP literal.
IssueRecordByFootprint ==
  [][\A x \in DOMAIN th : IssueSucceeds(x) =>
       /\ RecordAsIssued(x)
       /\ db'[th[x].sk].h["I"] = MpNil <=>
            \/ NoFootprintInput(x)
            \/ th[x].in[1] # "" /\ ParseIP(th[x].in[1]) = <<>>]_vars

IssuedWithFootprint ==
  \E x \in DOMAIN th :
    /\ th[x].op = "Issue" /\ th[x].pc = "ret" /\ th[x].err = Nil
    /\ th[x].in[1] = "1.2.3.4"
    /\ th[x].sk \in DOMAIN db
    /\ db[th[x].sk].h["I"] # MpNil /\ db[th[x].sk].h["C"] = MpNil

\* caller x has called Issue or Access
CalledIssueOrAccess(x) == th[x].pc # "idle" /\ th[x].op \in {"Issue", "Access"}

\* C18: on a Store without backend Issue, Access, Revoke, RevokeN and List
\* return NoBackend, and on a Store without serializer Issue and Access return
\* NoSerializer; no backend operation is attempted.
MissingPartsReported ==
  /\ ~st.redis =>
       /\ \A x \in DOMAIN th :
            (th[x].pc # "idle" /\ (st.serlr \/ th[x].op = "Revoke")) =>
              th[x].pc = "ret" /\ th[x].err = ErrNoBackend
       /\ rn.pc # "call" => rn.pc = "ret" /\ rn.err = ErrNoBackend
       /\ ls.pc # "call" => ls.pc = "ret" /\ ls.err = ErrNoBackend
       /\ db = EmptyMap
  /\ ~st.serlr =>
       \A x \in DOMAIN th : CalledIssueOrAccess(x) =>
         th[x].pc = "ret" /\ th[x].err = ErrNoSerializer

\* C19: no public operation of the Store panics, whatever the Store has
\* attached.
NoPanic == \A x \in DOMAIN th : th[x].pc # "panic"

\* the part of a deserialized string after the header
Remainder(x) == SubSeq(th[x].s, Len(header) + 1, Len(th[x].s))

\* the string of caller x is one the format rules out: no header, or, with a
\* verifier, no separator or an empty payload or signature segment
IllFormed(x) ==
  \/ ~HasPrefix(th[x].s, header)
  \/ /\ th[x].cs # "nil"
     /\ \/ IndexByte(Remainder(x), ".") < 0
        \/ IndexByte(Remainder(x), ".") = 0
        \/ IndexByte(Remainder(x), ".") = Len(Remainder(x)) - 1

\* C20: Deserialize of a string without the header or, with a verifier, without
\* separator or with an empty payload or signature segment returns BadFormat
\* without invoking the verifier or touching the output.
IllFormedRejected ==
  \A x \in DOMAIN th :
    (th[x].op = "Deserialize" /\ th[x].pc = "ret" /\ IllFormed(x)) =>
      /\ th[x].err = ErrBadFormat
      /\ ~th[x].called
      /\ th[x].payload = "untouched"

\* the payload and the signature segment of the string of caller x
PayloadSegment(x) == SubSeq(Remainder(x), 1, IndexByte(Remainder(x), "."))
SignatureSegment(x) ==
  SubSeq(Remainder(x), IndexByte(Remainder(x), ".") + 2, Len(Remainder(x)))

\* caller x has returned from Deserialize with a verifier, of a string that
\* passed the format tests and went through the two decode tasks
DecodedWithVerifier(x) ==
  /\ th[x].op = "Deserialize" /\ th[x].pc = "ret" /\ th[x].cs # "nil"
  /\ th[x].pdone /\ th[x].sdone

\* C21: with a verifier, a payload or signature segment that is not valid
\* base64 makes Deserialize fail with BadFormat without invoking the verifier,
\* in whatever order the two decode tasks write the shared error.
CorruptSegmentRejected ==
  \A x \in DOMAIN th :
    ( /\ DecodedWithVerifier(x)
      /\ \/ DecodeString(PayloadSegment(x)).err = CorruptInputError
         \/ DecodeString(SignatureSegment(x)).err = CorruptInputError ) =>
      th[x].err = ErrBadFormat /\ ~th[x].called

\* the verifier was invoked in the call caller x has returned from, and failed
VerificationFailed(x) ==
  /\ DecodedWithVerifier(x) /\ th[x].called
  /\ compareSign(th[x].cs, th[x].p, th[x].sig) # Nil

\* C22: when the verifier fails, Deserialize returns the verifier's error
\* without attempting to decode the payload and leaves the output untouched,
\* also when the payload bytes cannot be decoded.
SignErrorMasksDecode ==
  \A x \in DOMAIN th : VerificationFailed(x) =>
    /\ th[x].err = ErrBadSign
    /\ ~th[x].tried
    /\ th[x].payload = "untouched"

\* a failed verification of payload bytes that cannot be decoded
FailedOnUndecodable ==
  \E x \in DOMAIN th : VerificationFailed(x) /\ MsgpackDecode(th[x].p) = DecodeError

\* caller x has returned from compareSign
Compared(x) == th[x].op = "Sign" /\ th[x].pc = "ret"

\* C23: for each sign method, writeSign produces a signature that compareSign
\* accepts over the same payload, and compareSign returns BadSign for a
\* payload or signature that differs from those.
SignRoundTrip ==
  \A x \in DOMAIN th :
    /\ th[x].op = "Sign" => th[x].pc # "panic"
    /\ Compared(x) =>
         IF th[x].pb = th[x].b /\ th[x].psig = th[x].sig
         THEN th[x].err = Nil
         ELSE th[x].err = ErrBadSign

\* C24: an ECDSA signature is 2 * ceil(bits / 8) bytes long on every curve,
\* and compareSign returns BadSign for a signature of any other length.
EcdsaWidth ==
  \A x \in DOMAIN th :
    (th[x].op = "Sign" /\ th[x].m = SignECDSA) =>
      /\ th[x].pc # "panic"
      /\ th[x].pc \in {"signed", "ret"} =>
           Len(th[x].sig) = 2 * CurveBytes(th[x].bits)
      /\ (th[x].pc = "ret" /\ Len(th[x].psig) # 2 * CurveBytes(th[x].bits)) =>
           th[x].err = ErrBadSign

\* caller x has returned from Serialize with a string
Serialized(x) == th[x].op = "Serialize" /\ th[x].pc = "ret"

\* the string Serialize returned, after the header and split at the separator
SerializedPayload(x) ==
  IF IndexByte(Remainder(x), ".") < 0 THEN Remainder(x) ELSE PayloadSegment(x)

\* C25: Serialize returns the header, the unpadded URL-safe base64 of the
\* payload bytes and, exactly with a sign method other than none, a separator
\* and the base64 of the signature, which is computed over the payload bytes
\* and not over their base64 form.
SerializeFormat ==
  \A x \in DOMAIN th : Serialized(x) =>
    /\ HasPrefix(th[x].s, header)
    /\ (th[x].m # SignNone) <=> (IndexByte(Remainder(x), ".") >= 0)
    /\ DecodeString(SerializedPayload(x)) = [b |-> th[x].b, err |-> Nil]
    /\ Len(SerializedPayload(x)) = (4 * Len(th[x].b) + 2) \div 3
    /\ th[x].m # SignNone =>
         /\ DecodeString(SignatureSegment(x)) = [b |-> th[x].sig, err |-> Nil]
         /\ IF th[x].m = SignHMAC
            THEN th[x].sig = hmacSign(HmacKey, th[x].b)
            ELSE /\ th[x].signed # {}
                 /\ \A t \in th[x].signed : t[1] = hashDigest(th[x].b)

\* a signed string of a payload whose base64 form ends in a short group
SerializedSigned ==
  \E x \in DOMAIN th :
    /\ Serialized(x) /\ th[x].m = SignECDSA /\ Len(th[x].b) % 3 = 2
    /\ IndexByte(Remainder(x), ".") = 3

\* caller x has returned from Deserialize of a string with header, payload
\* segment, separator and signature segment
TwoSegments(x) ==
  /\ th[x].op = "Deserialize" /\ th[x].pc = "ret"
  /\ HasPrefix(th[x].s, header)
  /\ IndexByte(Remainder(x), ".") > 0
  /\ IndexByte(Remainder(x), ".") < Len(Remainder(x)) - 1

\* C26: without verifier Deserialize rejects a string that carries a
\* signature segment; it does not decode the payload and ignore the signature.
SignedFormRejected ==
  \A x \in DOMAIN th : (TwoSegments(x) /\ th[x].cs = "nil") =>
    th[x].err # Nil /\ th[x].payload = "untouched"

\* C27: for a valid token T, Deserialize(Serialize(T)) without sign method
\* yields a token equal to T in id, subject, issuer, audience, issued_at,
\* not_before and expires_at; no audience entry is split or merged.
TokenRoundTrip ==
  \A x \in DOMAIN th :
    (th[x].op = "Serialize" /\ th[x].pc = "ret"
       /\ validate(th[x].t, TRUE, now) = Nil) =>
      /\ ~th[x].out.err
      /\ th[x].out.v # Nil
      /\ th[x].out.v.Id = th[x].t.Id
      /\ th[x].out.v.Subject = th[x].t.Subject
      /\ th[x].out.v.Issuer = th[x].t.Issuer
      /\ th[x].out.v.Audience = th[x].t.Audience
      /\ th[x].out.v.Issued = th[x].t.Issued
      /\ th[x].out.v.NotBefore = th[x].t.NotBefore
      /\ th[x].out.v.Expires = th[x].t.Expires

\* C28: decStorageData(encStorageData(T)) is T for every token T, nil and
\* tokens without footprints included; nil encodes as three 0xC0 blobs; a
\* record whose first field is empty or 0xC0 decodes to nil.
StorageDataRoundTrip ==
  \A x \in DOMAIN th :
    /\ (th[x].op = "Storage" /\ th[x].pc = "ret") =>
         /\ th[x].out = [t |-> th[x].t, err |-> Nil]
         /\ th[x].t = Nil => th[x].enc = <<MpNil, MpNil, MpNil>>
    /\ (th[x].op = "Decode" /\ th[x].pc = "ret") =>
         th[x].out = [t |-> Nil, err |-> Nil]

\* caller x has returned from makeStorageKey
KeyMade(x) == th[x].op = "Key" /\ th[x].pc = "ret"

\* C29: makeStorageKey(t, false) is [namespace ":"] b64u(subject) ":" b64u(id)
\* and makeStorageKey(t, true) is [namespace ":"] b64u(subject) ":*", with the
\* namespace part exactly when the namespace is not empty; a nil token gives
\* the empty string.
KeyLayout ==
  \A x \in DOMAIN th : KeyMade(x) =>
    LET k == th[x].key
        n == IF st.Namespace # "" THEN 2 ELSE 0
    IN  IF th[x].t = Nil THEN k = <<>>
        ELSE /\ Len(k) = n + 3
             /\ n = 2 => k[1] = Lit(st.Namespace) /\ k[2] = Lit(":")
             /\ k[n + 1] = B64(th[x].t.Subject)
             /\ k[n + 2] = Lit(":")
             /\ k[n + 3] = IF th[x].p THEN Lit("*") ELSE B64(th[x].t.Id)

\* the pattern key of a token in a Store without namespace
PatternKeyWithoutNamespace ==
  \E x \in DOMAIN th :
    KeyMade(x) /\ th[x].t # Nil /\ th[x].p /\ st.Namespace = "" /\ Len(th[x].key) = 3

\* the key and the hash are what the method needs
ValidFor(method, key, hash) ==
  CASE method = SignNone -> TRUE
    [] method = SignHMAC ->
         hash.available /\ key.type = "bytes" /\ key.n >= hmacKeyMinLen
    [] method \in {SignRSA, SignPSS} ->
         hash.available /\ key.type = "rsa" /\ key.ptr /\ key.valid
           /\ key.n >= rsaKeyMinLen
    [] method = SignECDSA -> hash.available /\ key.type = "ecdsa" /\ key.ptr
    [] OTHER -> FALSE

\* the key is of the type the method needs
KeyTypeFor(method, key) ==
  CASE method = SignHMAC -> key.type = "bytes"
    [] method \in {SignRSA, SignPSS} -> key.type = "rsa"
    [] OTHER -> key.type = "ecdsa"

\* C30: New returns a serializer and no error exactly for a defined method
\* with a valid key and hash, and otherwise no serializer and an error: BadHash
\* for an unavailable hash, BadKeyType for a key of the wrong type, BadKeyLen
\* for a short HMAC key or RSA modulus.
NewValidates ==
  \A x \in DOMAIN th : (th[x].op = "New" /\ th[x].pc # "idle") =>
    LET d == th[x]
        signing == d.method \in SignHMAC..SignECDSA
    IN  /\ d.pc = "ret"
        /\ IF ValidFor(d.method, d.key, d.hash)
           THEN d.ser # Nil /\ d.err = Nil
           ELSE d.ser = Nil /\ d.err # Nil
        /\ (signing /\ ~d.hash.available) => d.err = BadHash
        /\ (signing /\ d.hash.available /\ ~KeyTypeFor(d.method, d.key)) =>
             d.err = BadKeyType
        /\ (signing /\ d.hash.available /\ KeyTypeFor(d.method, d.key)
              /\ d.key.ptr /\ d.key.valid
              /\ d.method # SignECDSA
              /\ d.key.n < (IF d.method = SignHMAC THEN hmacKeyMinLen
                            ELSE rsaKeyMinLen)) =>
             d.err = BadKeyLen

\* the rules of validate that token t fails at time at
FailedRules(t, nbfCheck, at) ==
  {r \in {"id", "subject", "issued", "expired", "not-before"} :
     CASE r = "id" -> t.Id = ZeroUUID
       [] r = "subject" -> t.Subject = ZeroUUID
       [] r = "issued" -> t.Issued = 0 \/ t.Issued > at
       [] r = "expired" -> t.Expires # 0 /\ t.Expires < at + 5
       [] r = "not-before" ->
            nbfCheck /\ t.NotBefore # 0 /\ t.NotBefore > at - 5}

\* C36: validate evaluates every rule: it returns an error exactly when some
\* rule fails, the error carries one reason for each rule that fails, and the
\* expired and not_before_violated flags are each set exactly when their own
\* rule fails, whatever the other rules say.
ValidateAccumulates ==
  \A x \in DOMAIN th : Validated(x) =>
    LET F == FailedRules(th[x].t, th[x].op = "validate(true)", th[x].at)
        e == th[x].err
    IN /\ e # Nil <=> F # {}
       /\ e # Nil =>
            /\ e.kind = "ValidationError"
            /\ Len(e.errstrs) = Cardinality(F)
            /\ e.exp <=> "expired" \in F
            /\ e.nbf <=> "not-before" \in F

\* validate has reported all five rules at once
AllRulesFailed ==
  \E x \in DOMAIN th :
    /\ Validated(x) /\ th[x].err # Nil
    /\ Len(th[x].err.errstrs) = 5 /\ th[x].err.exp /\ th[x].err.nbf

\* Issue has returned an error to caller x
IssueFailed(x) == th[x].op = "Issue" /\ th[x].pc = "ret" /\ th[x].err # Nil

\* C38: Issue returns a non-empty token string only together with a nil
\* error: when serialization, validation or registration fails the string it
\* returns is empty.
IssueStringOnlyOnSuccess == \A x \in DOMAIN th : IssueFailed(x) => th[x].s = Nil

\* C34: Issue is all-or-nothing on the backend: whenever Issue has returned an
\* error the backend holds no record under the key of the token it built,
\* also when the expire-at step fails after the hash-set.
IssueAllOrNothing ==
  \A x \in DOMAIN th :
    (IssueFailed(x) /\ th[x].t # Nil) =>
      makeStorageKey(st, th[x].t, FALSE) \notin DOMAIN db

\* the part of C34 before the first backend call: a step in which Issue
\* fails with a validation error leaves the backend as it is
IssueRejectWritesNothing ==
  [][\A x \in DOMAIN th :
       (th[x].pc = "idle" /\ th'[x].op = "Issue" /\ th'[x].pc = "ret")
         => (db' = db /\ makeStorageKey(st, th'[x].t, FALSE) \notin DOMAIN db')]_vars

\* Revoke has returned to caller x
Revoked(x) == th[x].op = "Revoke" /\ th[x].pc = "ret" /\ th[x].t # Nil

\* C39: of the Revoke calls on one registered token that have returned, one
\* has returned success and every other one Unregistered, however their
\* exists and delete steps interleave: no two of them have both succeeded.
OneRevokeSucceeds ==
  \A x, y \in DOMAIN th :
    (x # y /\ Revoked(x) /\ Revoked(y) /\ th[x].t = th[y].t) =>
      ~(th[x].err = Nil /\ th[y].err = Nil)

\* the tokens with an expiry that Issue has registered
ExpiringTokens == {t \in gh.ok : t.Expires # 0}

\* C33: for an issued, never-revoked token with expires_at # 0 the record
\* exists at exactly the times at which validate accepts the token: the record
\* is never present while the token is rejected as expired, and the token
\* never passes validation while its record is gone.
RecordWhileValid ==
  \A t \in ExpiringTokens :
    makeStorageKey(st, t, FALSE) \in DOMAIN db <=> validate(t, TRUE, now) = Nil

\* the second half of C33 alone: a token that passes validation has its record
ValidHasRecord ==
  \A t \in ExpiringTokens :
    validate(t, TRUE, now) = Nil => makeStorageKey(st, t, FALSE) \in DOMAIN db

\* the wrapped handler has been invoked for the request at hand
Served == th[Handler].pc = "done"
\* the HTTP status the request at hand is to be answered with when rejected
StatusFor(h) ==
  IF ~st.redis \/ ~st.serlr THEN 503
  ELSE IF h.res # Nil /\ h.res.err # Nil /\ h.res.err.kind = "BackendError"
            /\ h.res.err.io
  THEN 500
  ELSE 401

\* C32: for every request the wrapped handler is invoked exactly once, with a
\* context that carries either the Token Access returned or an error record
\* {code, message}: 503 when the backend or the serializer is missing, 500 when
\* Access failed with a backend I/O error, 401 for every other rejection.
HandlerContext ==
  Served =>
    LET h == th[Handler]
    IN /\ h.served = 1
       /\ IF h.res # Nil /\ h.res.err = Nil
          THEN h.ctx # Nil /\ h.ctx = h.res.t
          ELSE /\ DOMAIN h.ctx = {"kind", "Code", "Message"}
               /\ h.ctx.Code = StatusFor(h)

\* C37: Access returns either a token and no error or no token and an error,
\* for every input string, the one whose payload decodes to nil included:
\* never no token together with no error.
AccessTokenOrError ==
  \A x \in DOMAIN th :
    (th[x].pc = "ret" /\ th[x].op = "Access") =>
      LET r == AccessResult(th[x])
      IN (r.t # Nil /\ r.err = Nil) \/ (r.t = Nil /\ r.err # Nil)

\* Access has returned to caller x
AccessDone(x) == th[x].pc = "ret" /\ th[x].op = "Access" /\ st.serlr
\* the error of a failed deserialization, signature verification or validation
EarlyFailure(e) ==
  e # Nil /\ e.kind \in {"BadFormat", "BadSign", "DecodeError", "ValidationError"}
\* the token Access validates: the one the string carries, with the current
\* footprint built from the inputs of the call
ValidatedToken(x) ==
  LET v == serlrDeserialize(th[x].s).v
      in == th[x].in
  IN IF \E i \in 1..4 : in[i] # ""
     THEN [v EXCEPT !.fpc = makeFootprint(0, in[1], in[2], in[3], in[4], th[x].at)]
     ELSE v

\* the checks of Access in their order: a string that does not deserialize
\* yields the serializer's error, one that does and carries a token that does
\* not validate yields the ValidationError, whatever the backend holds
AccessCheckOrder ==
  \A x \in {Caller} : AccessDone(x) =>
    LET d == serlrDeserialize(th[x].s)
    IN /\ d.err # Nil => th[x].err = d.err
       /\ (d.err = Nil /\ d.v # Nil
             /\ validate(ValidatedToken(x), TRUE, th[x].at) # Nil)
            => th[x].err = validate(ValidatedToken(x), TRUE, th[x].at)

\* a step in which Access fails in deserialization, verification or validation
\* is the first step of the call, before any backend call, and leaves the
\* backend as it is
EarlyFailureLeavesBackend ==
  \A x \in {Caller} :
    (th'[x] # th[x] /\ th'[x].pc = "ret" /\ th'[x].op = "Access"
       /\ EarlyFailure(th'[x].err))
      => (th[x].pc = "idle" /\ db' = db)

IPLiterals == {"1.2.3.4", "::1"}
\* the four strings call for a footprint: one of them is not empty, and the
\* address, if not empty, is an IPv4 or IPv6 literal
FootprintExpected(in) ==
  /\ \E i \in 1..4 : in[i] # ""
  /\ in[1] # "" => in[1] \in IPLiterals

\* the footprint Issue (fpi) or Access (fpc) has attached to the token of the
\* call of caller x
Attached(x) == IF th[x].op = "Issue" THEN th[x].t.fpi ELSE th[x].t.fpc

\* a footprint is attached exactly when the inputs call for one, and it
\* carries the referer, the origin and the parsed address
FootprintByInputs ==
  \A x \in {Caller} :
    (th[x].op \in {"Issue", "Access"} /\ th[x].t # Nil) =>
      /\ Attached(x) # Nil <=> FootprintExpected(th[x].in)
      /\ Attached(x) # Nil =>
           /\ Attached(x).Referer = th[x].in[2]
           /\ Attached(x).Origin = th[x].in[3]
           /\ Attached(x).RemoteAddr # <<>> <=> th[x].in[1] # ""

\* the step that writes the record (Issue, field I) or the current footprint
\* (Access, field C) writes the nil sentinel exactly when no footprint is
\* attached, and the encoded footprint otherwise
FootprintPersisted ==
  \A x \in {Caller} :
    /\ (th[x].pc = "rg_hmset" /\ th'[x].pc \in {"rg_expire", "ret"}
          /\ th'[x].err = Nil)
         => /\ db'[th[x].sk].h["I"] = MpNil <=> ~FootprintExpected(th[x].in)
            /\ db'[th[x].sk].h["I"] = EncodeFootprint(th[x].t.fpi)
    /\ (th[x].pc = "ac_hset" /\ th'[x].pc = "ret" /\ th'[x].err = Nil)
         => /\ db'[th[x].sk].h["C"] = MpNil <=> ~FootprintExpected(th[x].in)
            /\ db'[th[x].sk].h["C"] = EncodeFootprint(th[x].t.fpc)

\* C31: Issue and Access attach a footprint to the token if and only if one
\* of the four input strings is non-empty and the address, when non-empty,
\* parses as an IPv4 or IPv6 literal; otherwise the footprint is absent and is
\* persisted as the nil sentinel 0xC0.
FootprintIffInputs ==
  /\ []FootprintByInputs
  /\ [][FootprintPersisted]_vars

\* Access has attached and persisted a footprint with an IPv6 address, on a
\* record whose issue footprint is the nil sentinel
FootprintOfIPv6 ==
  /\ th[Caller].op = "Access" /\ th[Caller].pc = "ret" /\ th[Caller].err = Nil
  /\ th[Caller].in[1] = "::1"
  /\ th[Caller].t # Nil
  /\ th[Caller].t.fpc # Nil /\ Len(th[Caller].t.fpc.RemoteAddr) = 16
  /\ th[Caller].sk \in DOMAIN db
  /\ db[th[Caller].sk].h["C"] = EncodeFootprint(th[Caller].t.fpc)
  /\ db[th[Caller].sk].h["I"] = MpNil

====
